---- MODULE Spec2Model ----
(***************************************************************************)
(* Kaido: template/feature catalogue, feature resolver, custom-spec DSL,   *)
(* verification pipeline and the web wizard's generation loop.             *)
(*                                                                         *)
(* The TypeScript wizard (web/src), its scripts and the README are         *)
(* modelled from their source.  The resolver, the DSL parser and the       *)
(* verifier live in the Rust core; they are modelled from the design       *)
(* document and marked as such where they are defined.                     *)
(***************************************************************************)
EXTENDS Integers, Sequences, FiniteSets, TLC

VARIABLES
    \* ---- feature resolver: one resolve(purpose, requested) request ----
    purpose,        \* requested validator purpose
    requested,      \* requested feature names, as given (order, duplicates)
    resolved,       \* NoResult, or the result of resolve(purpose, requested)
    \* ---- custom-spec editor, serializer and DSL parser ----
    grammar,        \* which DSL this run exercises: "datum" or "redeemer"
    datum_fields,   \* config.datum_fields
    redeemer_actions, \* config.redeemer_actions
    phase,          \* "edit", "text" (serialized), "parsed"
    dsl,            \* the DSL string, a sequence of characters
    damage,         \* what was removed from the string by hand, or "none"
    parsed,         \* NotParsed, or the parser's result
    \* ---- verifier: one verification run ----
    v_enabled,      \* FALSE when the caller disabled verification
    v_state,        \* Pending, Compiling, Testing, Scanning, Passed, Failed, Skipped
    v_entered,      \* the stages entered so far, in order
    v_report,       \* stage -> "absent", "Passed", "Failed", "Skipped"
    v_failure,      \* the failure the run ended in, or NoFailure
    v_scan,         \* what the scanner printed, or NoScan
    v_findings,     \* the findings recorded in the report
    v_proc,         \* the external tool of the stage: none, running, hung
    v_outcome,      \* how the last tool invocation ended: none, ok, error, timeout
    \* ---- security matrix script: run_mode ----
    sh_pc,          \* the statement the script is at
    sh_mode,        \* index into MODES
    sh_t,           \* index into TEMPLATES
    sh_ran,         \* the tools invoked in this round
    sh_failed,      \* the tools that failed in this round
    sh_profile,     \* the scanner profile is present in the project
    sh_scan,        \* $scan
    sh_high_critical, \* $high_critical
    sh_detectors,   \* $detectors
    sh_line,        \* the line echoed for this round
    \* ---- one call of the wizard's API ----
    api_env,        \* how loadWasm ended: core, stub, dev_failed, prod_failed
    api_fn,         \* the function called
    api_options,    \* its options
    api_result,     \* NoApiResult, or what the call returned or threw
    api_clock,      \* the time of day, and the calls made by others so far
    api_again,      \* NoApiResult, or the result of the same call made once more
    \* ---- the wizard ----
    w_env,          \* how loadWasm ends, once it settles
    w_wasm,         \* "pending" while the load is in flight, then "settled"
    w_templates,    \* templates
    w_config,       \* config
    w_files,        \* files
    w_sdkFiles,     \* sdkFiles
    w_activeFile,   \* activeFile
    w_activeFileRef, \* activeFileRef.current
    w_error,        \* error, NULL when none
    w_loading,      \* loading
    w_queue,        \* the calls awaiting an API call, in the order they resume
    w_dirty,        \* templates were set and the render is still to come
    w_updates,      \* how many changes the user has made
    w_seen,         \* every configuration the wizard has been in
    w_failed,       \* a generation step has failed
    w_overlap,      \* a regenerate call was made while another was in flight
    \* ---- the feature checkboxes of the custom template ----
    ft_env,         \* how loadWasm ends, once it settles
    ft_pending,     \* listFeatures() has not resolved yet
    ft_features,    \* features, the list the checkboxes are rendered from
    ft_selected,    \* config.features
    ft_last,         \* the last click: the feature, the selection before it
    \* ---- the loader of the WASM module ----
    ld_wasm,        \* let wasm: "null" or the module
    ld_wasmFailed,  \* let wasmFailed
    ld_loading,     \* let loading: "null", or the promise, "pending" or "settled"
    ld_stage,       \* where the body of the load is: none, import, init, done
    ld_started,     \* how many times the import was started
    ld_pc,          \* each caller of loadWasm: idle, awaiting, returned
    ld_calls,        \* how many calls of loadWasm were made
    \* ---- the conversion of template slugs ----
    sl_slug,        \* the slug a caller passes
    sl_calls,       \* the conversions applied to it, in order
    sl_values       \* the slug, then the result of each conversion

resolverVars == <<purpose, requested, resolved>>

editorVars == <<grammar, datum_fields, redeemer_actions, phase, dsl, damage, parsed>>

verifierVars == <<v_enabled, v_state, v_entered, v_report, v_failure, v_scan,
                  v_findings, v_proc, v_outcome>>

matrixVars == <<sh_pc, sh_mode, sh_t, sh_ran, sh_failed, sh_profile, sh_scan,
                sh_high_critical, sh_detectors, sh_line>>

apiVars == <<api_env, api_fn, api_options, api_result, api_clock, api_again>>

wizardVars == <<w_env, w_wasm, w_templates, w_config, w_files, w_sdkFiles,
                w_activeFile, w_activeFileRef, w_error, w_loading, w_queue,
                w_dirty, w_updates, w_seen, w_failed, w_overlap>>

featureVars == <<ft_env, ft_pending, ft_features, ft_selected, ft_last>>

loaderVars == <<ld_wasm, ld_wasmFailed, ld_loading, ld_stage, ld_started, ld_pc, ld_calls>>

slugVars == <<sl_slug, sl_calls, sl_values>>

vars == <<resolverVars, editorVars, verifierVars, matrixVars, apiVars, wizardVars, featureVars, loaderVars,
          slugVars>>

\* What each component leaves alone.
notResolver == <<editorVars, verifierVars, matrixVars, apiVars, wizardVars, featureVars, loaderVars, slugVars>>

notEditor == <<resolverVars, verifierVars, matrixVars, apiVars, wizardVars, featureVars, loaderVars, slugVars>>

notVerifier == <<resolverVars, editorVars, matrixVars, apiVars, wizardVars, featureVars, loaderVars, slugVars>>

notMatrix == <<resolverVars, editorVars, verifierVars, apiVars, wizardVars, featureVars, loaderVars, slugVars>>

notApi == <<resolverVars, editorVars, verifierVars, matrixVars, wizardVars, featureVars, loaderVars, slugVars>>

notWizard == <<resolverVars, editorVars, verifierVars, matrixVars, apiVars, featureVars, loaderVars, slugVars>>

notFeatures == <<resolverVars, editorVars, verifierVars, matrixVars, apiVars, wizardVars, loaderVars, slugVars>>

notLoader == <<resolverVars, editorVars, verifierVars, matrixVars, apiVars, wizardVars, featureVars, slugVars>>

notSlug == <<resolverVars, editorVars, verifierVars, matrixVars, apiVars, wizardVars, featureVars, loaderVars>>

\* ------------------------------------------------------------------------
\* Generic helpers
\* ------------------------------------------------------------------------
Range(s) == { s[i] : i \in DOMAIN s }

SeqsUpTo(S, n) == UNION { [1..k -> S] : k \in 0..n }

NULL == "null"

\* ------------------------------------------------------------------------
\* Catalogue of composable features (web/src/lib/wasm.ts)
\* ------------------------------------------------------------------------

\* value-preservation loses its dependency on datum-continuity
FALLBACK_FEATURES_dep_dropped ==
    << [name |-> "signature-auth",     purpose |-> NULL,    depends_on |-> <<>>],
       [name |-> "timelock",           purpose |-> "spend", depends_on |-> <<>>],
       [name |-> "datum-continuity",   purpose |-> "spend", depends_on |-> <<>>],
       [name |-> "value-preservation", purpose |-> "spend", depends_on |-> <<>>],
       [name |-> "reference-safety",   purpose |-> "spend", depends_on |-> <<"datum-continuity">>],
       [name |-> "burn-verification",  purpose |-> "mint",  depends_on |-> <<>>],
       [name |-> "bounded-operations", purpose |-> "spend", depends_on |-> <<"datum-continuity">>] >>

\* value-preservation is declared first, before the feature it depends on
FALLBACK_FEATURES_reordered ==
    << [name |-> "value-preservation", purpose |-> "spend", depends_on |-> <<"datum-continuity">>],
       [name |-> "signature-auth",     purpose |-> NULL,    depends_on |-> <<>>],
       [name |-> "timelock",           purpose |-> "spend", depends_on |-> <<>>],
       [name |-> "datum-continuity",   purpose |-> "spend", depends_on |-> <<>>],
       [name |-> "reference-safety",   purpose |-> "spend", depends_on |-> <<"datum-continuity">>],
       [name |-> "burn-verification",  purpose |-> "mint",  depends_on |-> <<>>],
       [name |-> "bounded-operations", purpose |-> "spend", depends_on |-> <<"datum-continuity">>] >>

\* burn-verification is declared without a purpose
FALLBACK_FEATURES_burn_any ==
    << [name |-> "signature-auth",     purpose |-> NULL,    depends_on |-> <<>>],
       [name |-> "timelock",           purpose |-> "spend", depends_on |-> <<>>],
       [name |-> "datum-continuity",   purpose |-> "spend", depends_on |-> <<>>],
       [name |-> "value-preservation", purpose |-> "spend", depends_on |-> <<"datum-continuity">>],
       [name |-> "reference-safety",   purpose |-> "spend", depends_on |-> <<"datum-continuity">>],
       [name |-> "burn-verification",  purpose |-> NULL,    depends_on |-> <<>>],
       [name |-> "bounded-operations", purpose |-> "spend", depends_on |-> <<"datum-continuity">>] >>

\* datum-continuity, on which three spend features depend, is declared for mint
FALLBACK_FEATURES_dep_mint ==
    << [name |-> "signature-auth",     purpose |-> NULL,    depends_on |-> <<>>],
       [name |-> "timelock",           purpose |-> "spend", depends_on |-> <<>>],
       [name |-> "datum-continuity",   purpose |-> "mint",  depends_on |-> <<>>],
       [name |-> "value-preservation", purpose |-> "spend", depends_on |-> <<"datum-continuity">>],
       [name |-> "reference-safety",   purpose |-> "spend", depends_on |-> <<"datum-continuity">>],
       [name |-> "burn-verification",  purpose |-> "mint",  depends_on |-> <<>>],
       [name |-> "bounded-operations", purpose |-> "spend", depends_on |-> <<"datum-continuity">>] >>

FALLBACK_FEATURES ==
    << [name |-> "signature-auth",     purpose |-> NULL,    depends_on |-> <<>>],
       [name |-> "timelock",           purpose |-> "spend", depends_on |-> <<>>],
       [name |-> "datum-continuity",   purpose |-> "spend", depends_on |-> <<>>],
       [name |-> "value-preservation", purpose |-> "spend", depends_on |-> <<"datum-continuity">>],
       [name |-> "reference-safety",   purpose |-> "spend", depends_on |-> <<"datum-continuity">>],
       [name |-> "burn-verification",  purpose |-> "mint",  depends_on |-> <<>>],
       [name |-> "bounded-operations", purpose |-> "spend", depends_on |-> <<"datum-continuity">>] >>

\* The feature names of the catalogue.
FeatureNames == { FALLBACK_FEATURES[i].name : i \in DOMAIN FALLBACK_FEATURES }

\* Position of a feature in the catalogue (its declaration order).
FeatureIndex(n) ==
    CHOOSE i \in DOMAIN FALLBACK_FEATURES :
        /\ FALLBACK_FEATURES[i].name = n
        /\ \A j \in DOMAIN FALLBACK_FEATURES :
               FALLBACK_FEATURES[j].name = n => i <= j

\* features.find((f) => f.name === name)
FindFeature(n) == FALLBACK_FEATURES[FeatureIndex(n)]

\* feature?.depends_on ?? []
DependsOn(n) ==
    IF n \in FeatureNames THEN Range(FindFeature(n).depends_on) ELSE {}

Purposes == {"spend", "mint"}

\* ------------------------------------------------------------------------
\* Feature resolver (design document, section 4.2)
\* ------------------------------------------------------------------------

\* Transitive closure of a feature set under depends_on.
RECURSIVE Closure(_)
Closure(S) ==
    LET T == S \cup UNION { DependsOn(n) : n \in S }
    IN  IF T = S THEN S ELSE Closure(T)

\* Topological order of a closed set, ties broken by declaration order: the
\* next feature rendered is the earliest-declared one whose dependencies have
\* all been rendered.
RECURSIVE RenderOrder(_, _)
RenderOrder(done, rest) ==
    LET ready == { n \in rest : DependsOn(n) \cap rest = {} }
    IN  IF rest = {} \/ ready = {}
        THEN done
        ELSE LET n == CHOOSE x \in ready :
                          \A y \in ready : FeatureIndex(x) <= FeatureIndex(y)
             IN  RenderOrder(Append(done, n), rest \ {n})

ResolveError(kind, feature, expected) ==
    [ok |-> FALSE, error |-> kind, feature |-> feature, expected |-> expected,
     set |-> {}, order |-> <<>>]

\* resolve(purpose, requested) -> ResolvedFeatures | ResolutionError
Resolve(p, req) ==
    LET R   == Range(req)
        C   == Closure(R)
        bad == { n \in C \cap FeatureNames : FindFeature(n).purpose \notin {NULL, p} }
    IN  IF ~ (R \subseteq FeatureNames)
        THEN ResolveError("ValidationError",
                          CHOOSE n \in R : n \notin FeatureNames, NULL)
        ELSE IF ~ (C \subseteq FeatureNames)
        THEN ResolveError("UnresolvableDependency",
                          CHOOSE n \in C : n \notin FeatureNames, NULL)
        ELSE IF bad # {}
        THEN LET f == CHOOSE x \in bad :
                          \A y \in bad : FeatureIndex(x) <= FeatureIndex(y)
             IN  ResolveError("PurposeConflict", f, FindFeature(f).purpose)
        ELSE [ok |-> TRUE, error |-> NULL, feature |-> NULL, expected |-> NULL,
              set |-> C, order |-> RenderOrder(<<>>, C)]

\* No resolve has run yet.
NoResult == ResolveError("none", NULL, NULL)

\* Longest requested feature list explored.
MaxRequested == 3

RequestLists == SeqsUpTo(FeatureNames, MaxRequested)

ResolverIdle ==
    /\ purpose = "spend"
    /\ requested = <<>>
    /\ resolved = NoResult

InitResolverInputs ==
    /\ purpose \in Purposes
    /\ requested \in RequestLists
    /\ resolved = NoResult

DoResolve ==
    /\ resolved = NoResult
    /\ resolved' = Resolve(purpose, requested)
    /\ UNCHANGED <<purpose, requested, notResolver>>
\* ------------------------------------------------------------------------
\* Characters and strings.  A string is a sequence of one-character strings.
\* ------------------------------------------------------------------------
LowerChars == {"a", "b", "c", "d", "e", "f", "g", "h", "i", "j", "k", "l", "m",
               "n", "o", "p", "q", "r", "s", "t", "u", "v", "w", "x", "y", "z"}

UpperChars == {"A", "B", "C", "D", "E", "F", "G", "H", "I", "J", "K", "L", "M",
               "N", "O", "P", "Q", "R", "S", "T", "U", "V", "W", "X", "Y", "Z"}

DigitChars == {"0", "1", "2", "3", "4", "5", "6", "7", "8", "9"}

\* s.slice(from - 1, to), 1-based and inclusive
Slice(s, from, to) == [i \in 1..(to - from + 1) |-> s[from + i - 1]]

\* String.prototype.trim
RECURSIVE Trim(_)
Trim(s) ==
    IF s = <<>> THEN s
    ELSE IF Head(s) = " " THEN Trim(Tail(s))
    ELSE IF s[Len(s)] = " " THEN Trim(Slice(s, 1, Len(s) - 1))
    ELSE s

\* parts.join(sep)
RECURSIVE Join(_, _)
Join(parts, sep) ==
    IF parts = <<>> THEN <<>>
    ELSE IF Len(parts) = 1 THEN parts[1]
    ELSE parts[1] \o sep \o Join(Tail(parts), sep)

\* value.replace(/[^a-z0-9_]/g, '')
SanitizeFieldName(v) ==
    SelectSeq(v, LAMBDA c : c \in LowerChars \cup DigitChars \cup {"_"})

\* name.replace(/[^A-Za-z0-9]/g, '')
SanitizeActionName(v) ==
    SelectSeq(v, LAMBDA c : c \in LowerChars \cup UpperChars \cup DigitChars)

\* ------------------------------------------------------------------------
\* Field types (web/src/components/CustomConfig.tsx)
\* ------------------------------------------------------------------------
FIELD_TYPES == <<"Int", "ByteArray", "Address", "Bool", "List<Int>", "List<ByteArray>">>

\* The characters of a field_type string.
TypeChars(t) ==
    CASE t = "Int"             -> <<"I", "n", "t">>
      [] t = "ByteArray"       -> <<"B", "y", "t", "e", "A", "r", "r", "a", "y">>
      [] t = "Address"         -> <<"A", "d", "d", "r", "e", "s", "s">>
      [] t = "Bool"            -> <<"B", "o", "o", "l">>
      [] t = "List<Int>"       -> <<"L", "i", "s", "t", "<", "I", "n", "t", ">">>
      [] t = "List<ByteArray>" -> <<"L", "i", "s", "t", "<", "B", "y", "t", "e",
                                    "A", "r", "r", "a", "y", ">">>

\* ------------------------------------------------------------------------
\* Serializers (web/src/pages/Wizard: serializeDatumFields,
\* serializeRedeemerActions)
\* ------------------------------------------------------------------------

\* the field separator is lost
FieldText_no_colon(f) == f.name \o TypeChars(f.field_type)

\* `${f.name}:${f.field_type}`
FieldText(f) == f.name \o <<":">> \o TypeChars(f.field_type)

\* (f) => f.name.trim().length > 0
Named(x) == Len(Trim(x.name)) > 0

serializeDatumFields(fields) ==
    LET kept == SelectSeq(fields, Named)
    IN  Join([i \in DOMAIN kept |-> FieldText(kept[i])], <<",">>)

ActionText(a) ==
    IF Len(a.fields) = 0 THEN a.name
    ELSE LET fieldStr == serializeDatumFields(a.fields)
         IN  IF Len(fieldStr) > 0
             THEN a.name \o <<"(">> \o fieldStr \o <<")">>
             ELSE a.name

serializeRedeemerActions(actions) ==
    LET kept == SelectSeq(actions, Named)
    IN  Join([i \in DOMAIN kept |-> ActionText(kept[i])], <<",">>)

\* ------------------------------------------------------------------------
\* Spec parser (design document, section 4.1)
\* ------------------------------------------------------------------------

\* [a-z][a-z0-9_]*
IsFieldIdent(s) ==
    /\ Len(s) > 0
    /\ s[1] \in LowerChars
    /\ \A i \in DOMAIN s : s[i] \in LowerChars \cup DigitChars \cup {"_"}

\* [A-Za-z][A-Za-z0-9]*
IsActionIdent(s) ==
    /\ Len(s) > 0
    /\ s[1] \in LowerChars \cup UpperChars
    /\ \A i \in DOMAIN s : s[i] \in LowerChars \cup UpperChars \cup DigitChars

\* The type vocabulary: the token of each primitive/composite type.
TypeOfToken(tok) ==
    LET known == { i \in DOMAIN FIELD_TYPES : TypeChars(FIELD_TYPES[i]) = tok }
    IN  IF known = {} THEN NULL ELSE FIELD_TYPES[CHOOSE i \in known : TRUE]

\* Split at every sep that is outside parentheses.
RECURSIVE SplitTop(_, _, _, _, _)
SplitTop(s, sep, i, depth, cur) ==
    IF i > Len(s) THEN <<cur>>
    ELSE IF s[i] = sep /\ depth = 0
    THEN <<cur>> \o SplitTop(s, sep, i + 1, 0, <<>>)
    ELSE SplitTop(s, sep, i + 1,
                  depth + (IF s[i] = "(" THEN 1 ELSE IF s[i] = ")" THEN -1 ELSE 0),
                  Append(cur, s[i]))

\* Split at every sep.
RECURSIVE Split(_, _, _, _)
Split(s, sep, i, cur) ==
    IF i > Len(s) THEN <<cur>>
    ELSE IF s[i] = sep THEN <<cur>> \o Split(s, sep, i + 1, <<>>)
    ELSE Split(s, sep, i + 1, Append(cur, s[i]))

\* Parentheses open and close in pairs, never nested below zero.
RECURSIVE Balanced(_, _, _)
Balanced(s, i, depth) ==
    IF depth < 0 THEN FALSE
    ELSE IF i > Len(s) THEN depth = 0
    ELSE Balanced(s, i + 1,
                  depth + (IF s[i] = "(" THEN 1 ELSE IF s[i] = ")" THEN -1 ELSE 0))

ParseOk(v) == [ok |-> TRUE, error |-> NULL, fragment |-> <<>>, value |-> v]

ParseError(fragment) ==
    [ok |-> FALSE, error |-> "ParseError", fragment |-> fragment, value |-> <<>>]

NotParsed == [ok |-> FALSE, error |-> "none", fragment |-> <<>>, value |-> <<>>]

\* the duplicate-name check is missing
HasDuplicate_never(names) == FALSE

\* Two entries of a name list are equal.
HasDuplicate(names) ==
    \E i, j \in DOMAIN names : i < j /\ names[i] = names[j]

\* A name that occurs twice in a name list.
FirstDuplicate(names) ==
    CHOOSE n \in Range(names) :
        \E i, j \in DOMAIN names : i < j /\ names[i] = n /\ names[j] = n

\* The result for a list of pieces, given the result of each piece: the first
\* piece in error, a repeated name, or the parsed values in order.
ListResult(pieces, results, names) ==
    IF \E i \in DOMAIN results : ~ results[i].ok
    THEN ParseError(pieces[CHOOSE i \in DOMAIN results :
                              /\ ~ results[i].ok
                              /\ \A j \in 1..(i - 1) : results[j].ok])
    ELSE IF HasDuplicate(names) THEN ParseError(FirstDuplicate(names))
    ELSE ParseOk([i \in DOMAIN results |-> results[i].value])

\* The names of the parsed pieces, <<>> for a piece in error.
NamesOf(results) ==
    [i \in DOMAIN results |-> IF results[i].ok THEN results[i].value.name ELSE <<>>]

ParseFieldNamed(piece, name, type) ==
    IF IsFieldIdent(name) /\ type # NULL
    THEN ParseOk([name |-> name, field_type |-> type])
    ELSE ParseError(piece)

ParseFieldHalves(piece, halves) ==
    IF Len(halves) # 2 THEN ParseError(piece)
    ELSE ParseFieldNamed(piece, Trim(halves[1]), TypeOfToken(Trim(halves[2])))

\* field := identifier ':' type
ParseField(piece) == ParseFieldHalves(piece, Split(piece, ":", 1, <<>>))

ListResultOf(pieces, results) == ListResult(pieces, results, NamesOf(results))

ParseFieldPieces(pieces) ==
    ListResultOf(pieces, [i \in DOMAIN pieces |-> ParseField(pieces[i])])

\* field (',' field)*, or nothing
ParseFieldList(text) ==
    IF Trim(text) = <<>> THEN ParseOk(<<>>)
    ELSE ParseFieldPieces(Split(text, ",", 1, <<>>))

\* Position of the first c in s, or 0.
IndexOf(s, c) ==
    IF \E i \in DOMAIN s : s[i] = c
    THEN CHOOSE i \in DOMAIN s : s[i] = c /\ \A j \in 1..(i - 1) : s[j] # c
    ELSE 0

ParseActionFields(piece, name, closed, inner, list) ==
    IF closed /\ IsActionIdent(name) /\ inner # <<>> /\ list.ok
    THEN ParseOk([name |-> name, fields |-> list.value])
    ELSE ParseError(piece)

ParseActionAt(piece, p, open) ==
    IF open = 0
    THEN IF IsActionIdent(p)
         THEN ParseOk([name |-> p, fields |-> <<>>])
         ELSE ParseError(piece)
    ELSE ParseActionFields(piece, Trim(Slice(p, 1, open - 1)), p[Len(p)] = ")",
                           Trim(Slice(p, open + 1, Len(p) - 1)),
                           ParseFieldList(Slice(p, open + 1, Len(p) - 1)))

ParseActionTrimmed(piece, p) == ParseActionAt(piece, p, IndexOf(p, "("))

\* action := identifier ['(' field (',' field)* ')']
ParseAction(piece) == ParseActionTrimmed(piece, Trim(piece))

ParseActionPieces(pieces) ==
    ListResultOf(pieces, [i \in DOMAIN pieces |-> ParseAction(pieces[i])])

\* action (',' action)*, or nothing
ParseActionList(text) ==
    IF Trim(text) = <<>> THEN ParseOk(<<>>)
    ELSE IF ~ Balanced(text, 1, 0) THEN ParseError(text)
    ELSE ParseActionPieces(SplitTop(text, ",", 1, 0, <<>>))

\* ------------------------------------------------------------------------
\* The custom-spec editor (web/src/components/CustomConfig.tsx)
\* ------------------------------------------------------------------------

\* Most datum fields kept in the editor.
MaxDatumFields == 2

\* Most actions plus action fields kept in the editor.
MaxRedeemerParts == 3

\* What is typed into a field-name input.
FieldNamesTyped == { <<"a", "-">>, <<"b", "1">>, <<"1", " ">> }

\* What is typed into an action-name input.
ActionNamesTyped == { <<"A", "_">>, <<"B", "b">>, <<"9", "-">> }

RedeemerParts(actions) ==
    Len(actions) + Len(Join([i \in DOMAIN actions |-> actions[i].fields], <<>>))

\* arr.filter((_, i) => i !== idx)
RemoveAt(s, idx) == [i \in 1..(Len(s) - 1) |-> IF i < idx THEN s[i] ELSE s[i + 1]]

EditorIdle ==
    /\ grammar = "datum"
    /\ datum_fields = <<>>
    /\ redeemer_actions = <<>>
    /\ phase = "edit"
    /\ dsl = <<>>
    /\ damage = "none"
    /\ parsed = NotParsed

InitEditor ==
    /\ grammar \in {"datum", "redeemer"}
    /\ datum_fields = <<>>
    /\ redeemer_actions = <<>>
    /\ phase = "edit"
    /\ dsl = <<>>
    /\ damage = "none"
    /\ parsed = NotParsed

Editing(g) == phase = "edit" /\ grammar = g

addDatumField ==
    /\ Editing("datum")
    /\ Len(datum_fields) < MaxDatumFields
    /\ datum_fields' = Append(datum_fields, [name |-> <<>>, field_type |-> "Int"])
    /\ UNCHANGED <<grammar, redeemer_actions, phase, dsl, damage, parsed, notEditor>>

updateDatumField ==
    /\ Editing("datum")
    /\ \E idx \in DOMAIN datum_fields :
          \/ \E value \in FieldNamesTyped :
                datum_fields' = [datum_fields EXCEPT ![idx].name = SanitizeFieldName(value)]
          \/ \E value \in Range(FIELD_TYPES) :
                datum_fields' = [datum_fields EXCEPT ![idx].field_type = value]
    /\ UNCHANGED <<grammar, redeemer_actions, phase, dsl, damage, parsed, notEditor>>

removeDatumField ==
    /\ Editing("datum")
    /\ \E idx \in DOMAIN datum_fields :
          datum_fields' = RemoveAt(datum_fields, idx)
    /\ UNCHANGED <<grammar, redeemer_actions, phase, dsl, damage, parsed, notEditor>>

addRedeemerAction ==
    /\ Editing("redeemer")
    /\ RedeemerParts(redeemer_actions) < MaxRedeemerParts
    /\ redeemer_actions' = Append(redeemer_actions, [name |-> <<>>, fields |-> <<>>])
    /\ UNCHANGED <<grammar, datum_fields, phase, dsl, damage, parsed, notEditor>>

updateActionName ==
    /\ Editing("redeemer")
    /\ \E idx \in DOMAIN redeemer_actions, name \in ActionNamesTyped :
          redeemer_actions' =
              [redeemer_actions EXCEPT ![idx].name = SanitizeActionName(name)]
    /\ UNCHANGED <<grammar, datum_fields, phase, dsl, damage, parsed, notEditor>>

removeAction ==
    /\ Editing("redeemer")
    /\ \E idx \in DOMAIN redeemer_actions :
          redeemer_actions' = RemoveAt(redeemer_actions, idx)
    /\ UNCHANGED <<grammar, datum_fields, phase, dsl, damage, parsed, notEditor>>

addActionField ==
    /\ Editing("redeemer")
    /\ RedeemerParts(redeemer_actions) < MaxRedeemerParts
    /\ \E actionIdx \in DOMAIN redeemer_actions :
          redeemer_actions' =
              [redeemer_actions EXCEPT ![actionIdx].fields =
                  Append(@, [name |-> <<>>, field_type |-> "Int"])]
    /\ UNCHANGED <<grammar, datum_fields, phase, dsl, damage, parsed, notEditor>>

updateActionField ==
    /\ Editing("redeemer")
    /\ \E actionIdx \in DOMAIN redeemer_actions :
          \E fieldIdx \in DOMAIN redeemer_actions[actionIdx].fields :
              \/ \E value \in FieldNamesTyped :
                    redeemer_actions' =
                        [redeemer_actions EXCEPT
                            ![actionIdx].fields[fieldIdx].name = SanitizeFieldName(value)]
              \/ \E value \in Range(FIELD_TYPES) :
                    redeemer_actions' =
                        [redeemer_actions EXCEPT
                            ![actionIdx].fields[fieldIdx].field_type = value]
    /\ UNCHANGED <<grammar, datum_fields, phase, dsl, damage, parsed, notEditor>>

removeActionField ==
    /\ Editing("redeemer")
    /\ \E actionIdx \in DOMAIN redeemer_actions :
          \E fieldIdx \in DOMAIN redeemer_actions[actionIdx].fields :
              redeemer_actions' =
                  [redeemer_actions EXCEPT
                      ![actionIdx].fields = RemoveAt(@, fieldIdx)]
    /\ UNCHANGED <<grammar, datum_fields, phase, dsl, damage, parsed, notEditor>>

\* options.datum = serializeDatumFields(cfg.datum_fields ?? [])
\* options.redeemer = serializeRedeemerActions(cfg.redeemer_actions ?? [])
Serialize ==
    /\ phase = "edit"
    /\ phase' = "text"
    /\ dsl' = IF grammar = "datum"
              THEN serializeDatumFields(datum_fields)
              ELSE serializeRedeemerActions(redeemer_actions)
    /\ UNCHANGED <<grammar, datum_fields, redeemer_actions, damage, parsed, notEditor>>

\* A DSL string written by hand (--datum, --redeemer) with a slip in it: the
\* first character of a type, a colon or a parenthesis is left out.
DamageKind(text, i) ==
    IF text[i] \in {"(", ")"} THEN "paren"
    ELSE IF text[i] = ":" THEN "colon"
    ELSE IF i > 1 /\ text[i - 1] = ":" THEN "type"
    ELSE "none"

Damage ==
    /\ phase = "text"
    /\ damage = "none"
    /\ \E i \in DOMAIN dsl :
          /\ DamageKind(dsl, i) # "none"
          /\ damage' = DamageKind(dsl, i)
          /\ dsl' = RemoveAt(dsl, i)
    /\ UNCHANGED <<grammar, datum_fields, redeemer_actions, phase, parsed, notEditor>>

\* validate(options): the Spec Parser reads the string
Parse ==
    /\ phase = "text"
    /\ phase' = "parsed"
    /\ parsed' = IF grammar = "datum" THEN ParseFieldList(dsl) ELSE ParseActionList(dsl)
    /\ UNCHANGED <<grammar, datum_fields, redeemer_actions, dsl, damage, notEditor>>

\* ------------------------------------------------------------------------
\* External tools: the scanner's output
\* ------------------------------------------------------------------------
LowerAlphabet == <<"a", "b", "c", "d", "e", "f", "g", "h", "i", "j", "k", "l", "m",
                   "n", "o", "p", "q", "r", "s", "t", "u", "v", "w", "x", "y", "z">>

UpperAlphabet == <<"A", "B", "C", "D", "E", "F", "G", "H", "I", "J", "K", "L", "M",
                   "N", "O", "P", "Q", "R", "S", "T", "U", "V", "W", "X", "Y", "Z">>

\* jq's ascii_downcase
AsciiDowncase(s) ==
    [i \in DOMAIN s |->
        IF \E k \in DOMAIN UpperAlphabet : UpperAlphabet[k] = s[i]
        THEN LowerAlphabet[CHOOSE k \in DOMAIN UpperAlphabet : UpperAlphabet[k] = s[i]]
        ELSE s[i]]

HIGH == <<"h", "i", "g", "h">>

CRITICAL == <<"c", "r", "i", "t", "i", "c", "a", "l">>

\* The severity strings a scanner run may print.
SeverityStrings ==
    { <<"l", "o", "w">>, <<"m", "e", "d", "i", "u", "m">>, HIGH,
      <<"H", "i", "g", "h">>, CRITICAL }

DetectorNames == {"detector-a", "detector-b"}

MaxFindings == 2

Findings == [severity : SeverityStrings, detector : DetectorNames]

\* What the scanner leaves on stdout: a JSON report with its findings, nothing
\* (the tool crashed), or text that is not a JSON report.
ScanOutputs ==
    {[kind |-> "json", findings |-> f] : f \in SeqsUpTo(Findings, MaxFindings)}
        \cup {[kind |-> "empty", findings |-> <<>>],
              [kind |-> "garbage", findings |-> <<>>]}

NoScan == [kind |-> "none", findings |-> <<>>]

\* only critical findings are selected
IsHighCritical_critical_only(f) == AsciiDowncase(f.severity) = CRITICAL

\* select((.severity|ascii_downcase)=="high" or (.severity|ascii_downcase)=="critical")
IsHighCritical(f) ==
    AsciiDowncase(f.severity) = HIGH \/ AsciiDowncase(f.severity) = CRITICAL

\* jq '[.findings[] | select(...)] | length'
HighCriticalCount(findings) == Len(SelectSeq(findings, IsHighCritical))

\* jq '[.findings[] | select(...) | .detector] | unique': the detectors named
DetectorsOf(findings) ==
    {findings[i].detector : i \in {j \in DOMAIN findings : IsHighCritical(findings[j])}}

\* ------------------------------------------------------------------------
\* Verifier (design document, section 4.4; README "Verification Pipeline")
\* ------------------------------------------------------------------------
Stages == <<"Compiling", "Testing", "Scanning">>

NoFailure == [kind |-> "none", stage |-> "none"]

Failure(kind, stage) == [kind |-> kind, stage |-> stage]

EmptyReport == [s \in Range(Stages) |-> "absent"]

\* no timeout is configured
ToolOutcomes_no_timeout == {"ok", "error"}

\* The outcomes of one external-tool invocation.
ToolOutcomes == {"ok", "error", "timeout"}

\* policy: any finding with severity high or critical fails the stage
ViolatesPolicy(findings) == \E i \in DOMAIN findings : IsHighCritical(findings[i])

\* A tool that hangs never exits: its invocation can only time out.
OutcomesOf(proc) == IF proc = "hung" THEN ToolOutcomes \cap {"timeout"} ELSE ToolOutcomes

VerifierIdle ==
    /\ v_enabled = FALSE
    /\ v_state = "Idle"
    /\ v_entered = <<>>
    /\ v_report = EmptyReport
    /\ v_failure = NoFailure
    /\ v_scan = NoScan
    /\ v_findings = <<>>
    /\ v_proc = "none"
    /\ v_outcome = "none"

InitVerify ==
    /\ v_enabled \in BOOLEAN
    /\ v_state = "Pending"
    /\ v_entered = <<>>
    /\ v_report = EmptyReport
    /\ v_failure = NoFailure
    /\ v_scan = NoScan
    /\ v_findings = <<>>
    /\ v_proc = "none"
    /\ v_outcome = "none"

\* Skipped is entered although verification was not disabled
VerifySkip_although_enabled ==
    /\ v_state = "Pending"
    /\ v_state' = "Skipped"
    /\ v_report' = [s \in Range(Stages) |-> "Skipped"]
    /\ UNCHANGED <<v_enabled, v_entered, v_failure, v_scan, v_findings, v_proc,
                   v_outcome, notVerifier>>

\* Pending -> Skipped: verification was disabled by the caller (--skip-verify)
VerifySkip ==
    /\ v_state = "Pending"
    /\ ~ v_enabled
    /\ v_state' = "Skipped"
    /\ v_report' = [s \in Range(Stages) |-> "Skipped"]
    /\ UNCHANGED <<v_enabled, v_entered, v_failure, v_scan, v_findings, v_proc,
                   v_outcome, notVerifier>>

\* Pending -> Compiling: the project is written out and the compiler invoked
VerifyStart ==
    /\ v_state = "Pending"
    /\ v_enabled
    /\ v_state' = "Compiling"
    /\ v_entered' = Append(v_entered, "Compiling")
    /\ v_proc' = "running"
    /\ UNCHANGED <<v_enabled, v_report, v_failure, v_scan, v_findings, v_outcome,
                   notVerifier>>

\* the external tool of the stage stops responding
ToolHangs ==
    /\ v_proc = "running"
    /\ v_proc' = "hung"
    /\ UNCHANGED <<v_enabled, v_state, v_entered, v_report, v_failure, v_scan,
                   v_findings, v_outcome, notVerifier>>

\* a timeout is reported as the failure of the stage's tool
FailStage_conflated(stage, kind) ==
    /\ v_state' = "Failed"
    /\ v_report' = [v_report EXCEPT ![stage] = "Failed"]
    /\ v_failure' = Failure(IF kind # "Timeout" THEN kind
                            ELSE IF stage = "Compiling" THEN "CompileError"
                            ELSE IF stage = "Testing" THEN "TestError"
                            ELSE "ScanToolError", stage)
    /\ v_proc' = "none"
    /\ UNCHANGED v_entered

\* A stage ended in a failure: the run halts, later stages are not started.
FailStage(stage, kind) ==
    /\ v_state' = "Failed"
    /\ v_report' = [v_report EXCEPT ![stage] = "Failed"]
    /\ v_failure' = Failure(kind, stage)
    /\ v_proc' = "none"
    /\ UNCHANGED v_entered

\* A stage passed: the next stage is entered and its tool invoked.
PassStage(stage, next) ==
    /\ v_state' = next
    /\ v_report' = [v_report EXCEPT ![stage] = "Passed"]
    /\ v_entered' = Append(v_entered, next)
    /\ v_proc' = "running"
    /\ UNCHANGED v_failure

\* the compiler returns or is timed out (aiken build)
CompileEnds ==
    /\ v_state = "Compiling"
    /\ \E outcome \in OutcomesOf(v_proc) :
          /\ v_outcome' = outcome
          /\ CASE outcome = "ok"      -> PassStage("Compiling", "Testing")
               [] outcome = "error"   -> FailStage("Compiling", "CompileError")
               [] outcome = "timeout" -> FailStage("Compiling", "Timeout")
    /\ UNCHANGED <<v_enabled, v_scan, v_findings, notVerifier>>

\* the inline-test runner returns or is timed out (aiken check)
TestEnds ==
    /\ v_state = "Testing"
    /\ \E outcome \in OutcomesOf(v_proc) :
          /\ v_outcome' = outcome
          /\ CASE outcome = "ok"      -> PassStage("Testing", "Scanning")
               [] outcome = "error"   -> FailStage("Testing", "TestError")
               [] outcome = "timeout" -> FailStage("Testing", "Timeout")
    /\ UNCHANGED <<v_enabled, v_scan, v_findings, notVerifier>>

\* The scanner returns or is timed out (aikido).  What it printed is held
\* against the policy; output that is no report is the tool's failure.
ScanEnds ==
    /\ v_state = "Scanning"
    /\ \E outcome \in OutcomesOf(v_proc) :
          /\ v_outcome' = outcome
          /\ IF outcome = "timeout"
             THEN /\ FailStage("Scanning", "Timeout")
                  /\ UNCHANGED <<v_scan, v_findings>>
             ELSE \E out \in ScanOutputs :
                     /\ (out.kind = "json") <=> (outcome = "ok")
                     /\ v_scan' = out
                     /\ v_findings' = out.findings
                     /\ IF out.kind # "json"
                        THEN FailStage("Scanning", "ScanToolError")
                        ELSE IF ViolatesPolicy(out.findings)
                        THEN FailStage("Scanning", "SecurityFindings")
                        ELSE /\ v_state' = "Passed"
                             /\ v_report' = [v_report EXCEPT !["Scanning"] = "Passed"]
                             /\ v_proc' = "none"
                             /\ UNCHANGED <<v_entered, v_failure>>
    /\ UNCHANGED <<v_enabled, notVerifier>>

\* ------------------------------------------------------------------------
\* Security matrix (scripts: run_mode), one generate / check / scan round per
\* template and mode
\* ------------------------------------------------------------------------
TEMPLATES ==
    <<"mint", "vesting", "escrow", "treasury", "marketplace", "staking", "oracle",
      "referral", "dex", "lending", "governance", "streaming", "custom">>

MODES == <<"with_profile", "without_profile">>

\* A jq result is held as the lines it printed: <<>> or <<n>>.
NoLine == [kind |-> "none", high_critical |-> <<>>, detectors |-> {}]

\* echo "$mode|$t|generate=FAIL", echo "$mode|$t|aiken_check=FAIL"
FailLine(what) == [kind |-> what, high_critical |-> <<>>, detectors |-> {}]

\* echo "$mode|$t|high_critical=$high_critical|detectors=$detectors"
ResultLine(count, detectors) ==
    [kind |-> "result", high_critical |-> count, detectors |-> detectors]

\* a failed check does not end the round
AfterCheck_falls_through(ok) == "scan"

\* if ! (cd "$out" && aiken check ...); then echo ...; continue; fi
AfterCheck(ok) == IF ok THEN "scan" ELSE "loop"

MatrixIdle ==
    /\ sh_pc = "idle"
    /\ sh_mode = 1
    /\ sh_t = 0
    /\ sh_ran = {}
    /\ sh_failed = {}
    /\ sh_profile = FALSE
    /\ sh_scan = NoScan
    /\ sh_high_critical = <<>>
    /\ sh_detectors = {}
    /\ sh_line = NoLine

InitMatrix ==
    /\ sh_pc = "loop"
    /\ sh_mode = 1
    /\ sh_t = 0
    /\ sh_ran = {}
    /\ sh_failed = {}
    /\ sh_profile = FALSE
    /\ sh_scan = NoScan
    /\ sh_high_critical = <<>>
    /\ sh_detectors = {}
    /\ sh_line = NoLine

\* for t in "${TEMPLATES[@]}"; run_mode "with_profile"; run_mode "without_profile"
ShLoop ==
    /\ sh_pc = "loop"
    /\ IF sh_t < Len(TEMPLATES)
       THEN /\ sh_t' = sh_t + 1
            /\ sh_pc' = "generate"
            /\ UNCHANGED sh_mode
       ELSE IF sh_mode < Len(MODES)
       THEN /\ sh_mode' = sh_mode + 1
            /\ sh_t' = 1
            /\ sh_pc' = "generate"
       ELSE /\ sh_pc' = "done"
            /\ UNCHANGED <<sh_mode, sh_t>>
    /\ sh_ran' = {}
    /\ sh_failed' = {}
    /\ sh_profile' = FALSE
    /\ sh_scan' = NoScan
    /\ sh_high_critical' = <<>>
    /\ sh_detectors' = {}
    /\ sh_line' = NoLine
    /\ UNCHANGED notMatrix

\* cargo run -q -p kaido -- generate ... --skip-verify
ShGenerate ==
    /\ sh_pc = "generate"
    /\ sh_ran' = sh_ran \cup {"generate"}
    /\ \E ok \in BOOLEAN :
          IF ok
          THEN /\ sh_pc' = "profile"
               /\ sh_profile' \in BOOLEAN
               /\ UNCHANGED <<sh_failed, sh_line>>
          ELSE /\ sh_line' = FailLine("generate=FAIL")
               /\ sh_failed' = sh_failed \cup {"generate"}
               /\ sh_pc' = "loop"
               /\ UNCHANGED sh_profile
    /\ UNCHANGED <<sh_mode, sh_t, sh_scan, sh_high_critical, sh_detectors, notMatrix>>

\* if [[ "$mode" == "without_profile" ]]; then rm -f "$out/.aikido.toml"; fi
ShRemoveProfile ==
    /\ sh_pc = "profile"
    /\ sh_profile' = IF MODES[sh_mode] = "without_profile" THEN FALSE ELSE sh_profile
    /\ sh_pc' = "check"
    /\ UNCHANGED <<sh_mode, sh_t, sh_ran, sh_failed, sh_scan, sh_high_critical,
                   sh_detectors, sh_line, notMatrix>>

\* (cd "$out" && aiken check): compiles the project and runs its tests
ShAikenCheck ==
    /\ sh_pc = "check"
    /\ sh_ran' = sh_ran \cup {"aiken"}
    /\ \E ok \in BOOLEAN :
          /\ sh_pc' = AfterCheck(ok)
          /\ IF ok
             THEN UNCHANGED <<sh_failed, sh_line>>
             ELSE /\ sh_line' = FailLine("aiken_check=FAIL")
                  /\ sh_failed' = sh_failed \cup {"aiken"}
    /\ UNCHANGED <<sh_mode, sh_t, sh_profile, sh_scan, sh_high_critical,
                   sh_detectors, notMatrix>>

\* scan=$(cd "$out" && aikido . --format json --quiet 2>... || true)
ShScan ==
    /\ sh_pc = "scan"
    /\ sh_ran' = sh_ran \cup {"aikido"}
    /\ sh_scan' \in ScanOutputs
    /\ sh_pc' = "count"
    /\ UNCHANGED <<sh_mode, sh_t, sh_failed, sh_profile, sh_high_critical,
                   sh_detectors, sh_line, notMatrix>>

\* high_critical=$(printf '%s' "$scan" | jq '[...] | length'): jq prints
\* nothing for empty input and fails, ending the script (set -e), for input
\* that is not a JSON report.
ShCount ==
    /\ sh_pc = "count"
    /\ CASE sh_scan.kind = "json" ->
              /\ sh_high_critical' = <<HighCriticalCount(sh_scan.findings)>>
              /\ sh_pc' = "detectors"
         [] sh_scan.kind = "empty" ->
              /\ sh_high_critical' = <<>>
              /\ sh_pc' = "detectors"
         [] OTHER ->
              /\ sh_pc' = "aborted"
              /\ UNCHANGED sh_high_critical
    /\ UNCHANGED <<sh_mode, sh_t, sh_ran, sh_failed, sh_profile, sh_scan,
                   sh_detectors, sh_line, notMatrix>>

\* detectors=$(printf '%s' "$scan" | jq -r '[... | .detector] | unique | join(",")')
ShDetectors ==
    /\ sh_pc = "detectors"
    /\ sh_detectors' = DetectorsOf(sh_scan.findings)
    /\ sh_pc' = "echo"
    /\ UNCHANGED <<sh_mode, sh_t, sh_ran, sh_failed, sh_profile, sh_scan,
                   sh_high_critical, sh_line, notMatrix>>

\* echo "$mode|$t|high_critical=$high_critical|detectors=$detectors"
ShEcho ==
    /\ sh_pc = "echo"
    /\ sh_line' = ResultLine(sh_high_critical, sh_detectors)
    /\ sh_pc' = "loop"
    /\ UNCHANGED <<sh_mode, sh_t, sh_ran, sh_failed, sh_profile, sh_scan,
                   sh_high_critical, sh_detectors, notMatrix>>

\* ------------------------------------------------------------------------
\* Template slugs (web/src/lib/template-icons, web/src/lib/wasm.ts)
\* ------------------------------------------------------------------------
\* The template identifiers, short (wizard) and long (core), as character
\* sequences.
Slug ==
    [ mint |-> <<"m", "i", "n", "t">>,
      vesting |-> <<"v", "e", "s", "t", "i", "n", "g">>,
      escrow |-> <<"e", "s", "c", "r", "o", "w">>,
      treasury |-> <<"t", "r", "e", "a", "s", "u", "r", "y">>,
      marketplace |-> <<"m", "a", "r", "k", "e", "t", "p", "l", "a", "c", "e">>,
      staking |-> <<"s", "t", "a", "k", "i", "n", "g">>,
      oracle |-> <<"o", "r", "a", "c", "l", "e">>,
      referral |-> <<"r", "e", "f", "e", "r", "r", "a", "l">>,
      dex |-> <<"d", "e", "x">>,
      lending |-> <<"l", "e", "n", "d", "i", "n", "g">>,
      governance |-> <<"g", "o", "v", "e", "r", "n", "a", "n", "c", "e">>,
      streaming |-> <<"s", "t", "r", "e", "a", "m", "i", "n", "g">>,
      custom |-> <<"c", "u", "s", "t", "o", "m">>,
      simple_mint |-> <<"s", "i", "m", "p", "l", "e", "_", "m", "i", "n", "t">>,
      multisig_treasury |-> <<"m", "u", "l", "t", "i", "s", "i", "g", "_", "t", "r", "e", "a", "s", "u", "r", "y">>,
      nft_marketplace |-> <<"n", "f", "t", "_", "m", "a", "r", "k", "e", "t", "p", "l", "a", "c", "e">>,
      staking_pool |-> <<"s", "t", "a", "k", "i", "n", "g", "_", "p", "o", "o", "l">>,
      oracle_settlement |-> <<"o", "r", "a", "c", "l", "e", "_", "s", "e", "t", "t", "l", "e", "m", "e", "n", "t">>,
      referral_system |-> <<"r", "e", "f", "e", "r", "r", "a", "l", "_", "s", "y", "s", "t", "e", "m">>,
      dex_pool |-> <<"d", "e", "x", "_", "p", "o", "o", "l">>,
      lending_pool |-> <<"l", "e", "n", "d", "i", "n", "g", "_", "p", "o", "o", "l">>,
      dao_governance |-> <<"d", "a", "o", "_", "g", "o", "v", "e", "r", "n", "a", "n", "c", "e">>,
      streaming_payments |-> <<"s", "t", "r", "e", "a", "m", "i", "n", "g", "_", "p", "a", "y", "m", "e", "n", "t", "s">> ]

\* an alias table in which a short key is itself aliased
SLUG_ALIASES_cyclic ==
    << <<Slug.simple_mint, Slug.mint>>,
       <<Slug.mint, Slug.simple_mint>>,
       <<Slug.multisig_treasury, Slug.treasury>>,
       <<Slug.nft_marketplace, Slug.marketplace>>,
       <<Slug.staking_pool, Slug.staking>>,
       <<Slug.oracle_settlement, Slug.oracle>>,
       <<Slug.referral_system, Slug.referral>>,
       <<Slug.dex_pool, Slug.dex>>,
       <<Slug.lending_pool, Slug.lending>>,
       <<Slug.dao_governance, Slug.governance>>,
       <<Slug.streaming_payments, Slug.streaming>> >>

\* Map WASM long slugs to short icon keys
SLUG_ALIASES ==
    << <<Slug.simple_mint, Slug.mint>>,
       <<Slug.multisig_treasury, Slug.treasury>>,
       <<Slug.nft_marketplace, Slug.marketplace>>,
       <<Slug.staking_pool, Slug.staking>>,
       <<Slug.oracle_settlement, Slug.oracle>>,
       <<Slug.referral_system, Slug.referral>>,
       <<Slug.dex_pool, Slug.dex>>,
       <<Slug.lending_pool, Slug.lending>>,
       <<Slug.dao_governance, Slug.governance>>,
       <<Slug.streaming_payments, Slug.streaming>> >>

\* Object.fromEntries(Object.entries(SLUG_ALIASES).map(([long, short]) => [short, long]))
REVERSE_SLUG_ALIASES ==
    [i \in DOMAIN SLUG_ALIASES |-> <<SLUG_ALIASES[i][2], SLUG_ALIASES[i][1]>>]

\* table[key] ?? default; of two entries with one key an object keeps the later
LookupOr(table, key, default) ==
    LET hits == {i \in DOMAIN table : table[i][1] = key}
    IN  IF hits = {} THEN default
        ELSE table[CHOOSE i \in hits : \A j \in hits : j <= i][2]

\* String.prototype.toLowerCase, on ASCII letters
toLowerCase(s) == AsciiDowncase(s)

\* slug.toLowerCase().replace(/-/g, '_')
normalizeSlug(slug) ==
    LET lower == toLowerCase(slug)
    IN  [i \in DOMAIN lower |-> IF lower[i] = "-" THEN "_" ELSE lower[i]]

toShortTemplateSlug(slug) ==
    LET normalized == normalizeSlug(slug)
    IN  LookupOr(SLUG_ALIASES, normalized, normalized)

toLongTemplateSlug(slug) ==
    LET short == toShortTemplateSlug(slug)
    IN  LookupOr(REVERSE_SLUG_ALIASES, short, short)

\* ------------------------------------------------------------------------
\* Template catalogue (web/src/lib/wasm.ts, README "SDK Support Matrix")
\* ------------------------------------------------------------------------

\* A TemplateInfo; has_supports_sdk is FALSE when the supports_sdk key is absent.
TemplateInfo(slug, has, sdk) ==
    [slug |-> slug, has_supports_sdk |-> has, supports_sdk |-> sdk]

SDK_SUPPORTED_SLUGS ==
    {Slug.mint, Slug.simple_mint, Slug.vesting, Slug.escrow, Slug.treasury,
     Slug.multisig_treasury, Slug.marketplace, Slug.nft_marketplace, Slug.staking,
     Slug.staking_pool, Slug.oracle, Slug.oracle_settlement, Slug.referral,
     Slug.referral_system}

inferSdkSupport(slug) == normalizeSlug(slug) \in SDK_SUPPORTED_SLUGS

\* supports_sdk: template.supports_sdk ?? inferSdkSupport(template.slug)
normalizeTemplateInfo(template) ==
    TemplateInfo(template.slug, TRUE,
                 IF template.has_supports_sdk THEN template.supports_sdk
                 ELSE inferSdkSupport(template.slug))

FALLBACK_TEMPLATES ==
    << TemplateInfo(Slug.mint, TRUE, TRUE),
       TemplateInfo(Slug.vesting, TRUE, TRUE),
       TemplateInfo(Slug.escrow, TRUE, TRUE),
       TemplateInfo(Slug.treasury, TRUE, TRUE),
       TemplateInfo(Slug.marketplace, TRUE, TRUE),
       TemplateInfo(Slug.staking, TRUE, TRUE),
       TemplateInfo(Slug.oracle, TRUE, TRUE),
       TemplateInfo(Slug.referral, TRUE, TRUE),
       TemplateInfo(Slug.dex, TRUE, FALSE),
       TemplateInfo(Slug.lending, TRUE, FALSE),
       TemplateInfo(Slug.governance, TRUE, FALSE),
       TemplateInfo(Slug.streaming, TRUE, FALSE),
       TemplateInfo(Slug.custom, TRUE, FALSE) >>

listTemplatesFallback == [i \in DOMAIN FALLBACK_TEMPLATES |-> normalizeTemplateInfo(FALLBACK_TEMPLATES[i])]

\* The catalogue of the core, as list_templates reports it: the templates of
\* the README under the long slugs the wizard sends.
CoreTemplates ==
    [i \in DOMAIN FALLBACK_TEMPLATES |->
        TemplateInfo(toLongTemplateSlug(FALLBACK_TEMPLATES[i].slug), TRUE,
                     FALLBACK_TEMPLATES[i].supports_sdk)]

\* templates.find((t) => toShortTemplateSlug(t.slug) === shortSlug)?.supports_sdk ?? false
templateSupportsSdk(templates, slug) ==
    LET shortSlug == toShortTemplateSlug(slug)
        hits == {i \in DOMAIN templates : toShortTemplateSlug(templates[i].slug) = shortSlug}
    IN  IF hits = {} THEN FALSE
        ELSE LET t == templates[CHOOSE i \in hits : \A j \in hits : i <= j]
             IN  t.has_supports_sdk /\ t.supports_sdk


\* ------------------------------------------------------------------------
\* Path literals
\* ------------------------------------------------------------------------
\* The literal parts of the generated paths and imports.
Lit ==
    [ AIKEN_TOML |-> <<"a", "i", "k", "e", "n", ".", "t", "o", "m", "l">>,
      LIB_DIR |-> <<"l", "i", "b", "/">>,
      TYPES_AK |-> <<"/", "t", "y", "p", "e", "s", ".", "a", "k">>,
      SLASH_TYPES |-> <<"/", "t", "y", "p", "e", "s">>,
      VALIDATORS_DIR |-> <<"v", "a", "l", "i", "d", "a", "t", "o", "r", "s", "/">>,
      DOT_AK |-> <<".", "a", "k">>,
      SDK_DIR |-> <<"s", "d", "k", "/">>,
      DOT_TS |-> <<".", "t", "s">> ]

\* ------------------------------------------------------------------------
\* Generation in fallback mode (web/src/lib/wasm.ts: generateFallback)
\* ------------------------------------------------------------------------
GeneratedFile(path, content) == [path |-> path, content |-> content]

TypeDecl(name, members) == [type |-> name, members |-> members]

\* const aikenToml = `name = "${ns}/${name}" ... user = "${ns}" project = "${name}" ...`
aikenToml(ns, name) ==
    [kind |-> "manifest", name |-> ns \o <<"/">> \o name, user |-> ns, project |-> name]

\* the Cancel variant follows the partial-claim toggle
generateTypesFile_by_partial_claim(template, options) ==
    [kind |-> "types",
     decls |->
        IF template = Slug.vesting
        THEN <<TypeDecl("VestingDatum", <<"owner", "beneficiary", "deadline", "amount">>),
               TypeDecl("VestingRedeemer",
                        IF options.partial_claim THEN <<"Claim", "Cancel">> ELSE <<"Claim">>)>>
        ELSE <<TypeDecl("Datum", <<"admin">>), TypeDecl("Redeemer", <<"Execute">>)>>]

generateTypesFile(template, options) ==
    [kind |-> "types",
     decls |->
        CASE template = Slug.mint ->
                IF options.time_lock
                THEN <<TypeDecl("MintDatum", <<"admin", "deadline">>),
                       TypeDecl("MintRedeemer", <<"Mint", "Burn">>)>>
                ELSE <<TypeDecl("MintRedeemer", <<"Mint", "Burn">>)>>
          [] template = Slug.vesting ->
                <<TypeDecl("VestingDatum", <<"owner", "beneficiary", "deadline", "amount">>),
                  TypeDecl("VestingRedeemer",
                           IF options.cancellable THEN <<"Claim", "Cancel">> ELSE <<"Claim">>)>>
          [] template = Slug.escrow ->
                <<TypeDecl("EscrowDatum", <<"buyer", "seller", "amount", "deadline">>),
                  TypeDecl("EscrowRedeemer", <<"Complete", "Cancel", "Reclaim">>)>>
          [] OTHER ->
                <<TypeDecl("Datum", <<"admin">>), TypeDecl("Redeemer", <<"Execute">>)>>]

generateValidatorFile(template, ns, name) ==
    LET modPath == ns \o <<"/">> \o name \o Lit.SLASH_TYPES
    IN  CASE template = Slug.mint ->
                [kind |-> "validator", validator |-> name, uses |-> modPath,
                 imports |-> <<"MintRedeemer">>, handler |-> "mint",
                 cases |-> <<"Mint", "Burn">>]
          [] template = Slug.vesting ->
                [kind |-> "validator", validator |-> name, uses |-> modPath,
                 imports |-> <<"VestingDatum", "VestingRedeemer">>, handler |-> "spend",
                 cases |-> <<"Claim">>]
          [] OTHER ->
                [kind |-> "validator", validator |-> name, uses |-> modPath,
                 imports |-> <<"Datum", "Redeemer">>, handler |-> "spend",
                 cases |-> <<"Execute">>]

\* the manifest carries the time of generation
generateFallback_stamped(options) ==
    <<GeneratedFile(Lit.AIKEN_TOML,
                    [kind |-> "manifest", name |-> options.project_name,
                     generated_at |-> api_clock]),
      GeneratedFile(Lit.LIB_DIR \o options.namespace \o <<"/">> \o options.project_name
                        \o Lit.TYPES_AK,
                    generateTypesFile(options.template, options)),
      GeneratedFile(Lit.VALIDATORS_DIR \o options.project_name \o Lit.DOT_AK,
                    generateValidatorFile(options.template, options.namespace,
                                          options.project_name))>>

\* The options of this model always carry namespace, project_name and template,
\* as the wizard's do, so the ?? defaults are not taken.
generateFallback(options) ==
    LET ns == options.namespace
        name == options.project_name
        template == options.template
    IN  <<GeneratedFile(Lit.AIKEN_TOML, aikenToml(ns, name)),
          GeneratedFile(Lit.LIB_DIR \o ns \o <<"/">> \o name \o Lit.TYPES_AK,
                        generateTypesFile(template, options)),
          GeneratedFile(Lit.VALIDATORS_DIR \o name \o Lit.DOT_AK,
                        generateValidatorFile(template, ns, name))>>

\* ------------------------------------------------------------------------
\* The core behind the WASM module (design document, sections 3, 4.3, 4.5, 6)
\* ------------------------------------------------------------------------
Ok(files) == [ok |-> TRUE, error |-> "none", files |-> files, valid |-> TRUE]

Err(kind) == [ok |-> FALSE, error |-> kind, files |-> <<>>, valid |-> FALSE]

\* validate_custom returned {valid: false, errors}
Invalid(kind) == [ok |-> TRUE, error |-> kind, files |-> <<>>, valid |-> FALSE]

\* a non-empty identifier over the lowercase-alphanumeric-and-underscore alphabet
IsIdentifier(s) ==
    /\ s # <<>>
    /\ \A i \in DOMAIN s : s[i] \in LowerChars \cup DigitChars \cup {"_"}

CoreKnowsTemplate(slug) ==
    \E i \in DOMAIN CoreTemplates :
        toShortTemplateSlug(CoreTemplates[i].slug) = toShortTemplateSlug(slug)

CoreSupportsSdk(slug) == templateSupportsSdk(CoreTemplates, slug)

CoreIsCustom(options) == toShortTemplateSlug(options.template) = Slug.custom

\* validate options: identifiers and template slug
CoreOptionsError(options) ==
    IF /\ \A name \in {options.namespace, options.project_name} : IsIdentifier(name)
       /\ CoreKnowsTemplate(options.template)
    THEN "none"
    ELSE "ValidationError"

\* Spec Parser + Feature Resolver on the custom specification
CoreCustomError(options) ==
    LET fields == ParseFieldList(options.datum)
        actions == ParseActionList(options.redeemer)
        r == Resolve(options.purpose, options.features)
    IN  IF ~ fields.ok \/ ~ actions.ok THEN "ParseError"
        ELSE IF r.ok THEN "none" ELSE r.error

\* validate(options): Spec Parser + Feature Resolver only
CoreValidate(options) ==
    LET error == CoreCustomError(options)
    IN  IF error = "none" THEN Ok(<<>>) ELSE Invalid(error)

\* The renderer is a pure function of the options: the three files of a
\* project, namespace-qualified, their text standing for the options rendered.
CoreRender(options) ==
    LET ns == options.namespace
        name == options.project_name
    IN  <<GeneratedFile(Lit.AIKEN_TOML, [kind |-> "manifest", rendered |-> options]),
          GeneratedFile(Lit.LIB_DIR \o ns \o <<"/">> \o name \o Lit.TYPES_AK,
                        [kind |-> "types", rendered |-> options]),
          GeneratedFile(Lit.VALIDATORS_DIR \o name \o Lit.DOT_AK,
                        [kind |-> "validator", rendered |-> options])>>

\* generate(options): validate options -> parser, resolver (custom) -> renderer
CoreGenerate(options) ==
    LET error == CoreOptionsError(options)
        customError == IF CoreIsCustom(options) THEN CoreCustomError(options) ELSE "none"
    IN  IF error # "none" THEN Err(error)
        ELSE IF customError # "none" THEN Err(customError)
        ELSE Ok(CoreRender(options))

\* generate_sdk(options): only for a template with supports_sdk
CoreGenerateSdk(options) ==
    LET error == CoreOptionsError(options)
    IN  IF error # "none" THEN Err(error)
    ELSE IF ~ CoreSupportsSdk(options.template) THEN Err("UnsupportedOperation")
    ELSE Ok(<<GeneratedFile(Lit.SDK_DIR \o options.project_name \o Lit.DOT_TS,
                            [kind |-> "sdk", rendered |-> options])>>)

\* ------------------------------------------------------------------------
\* The wizard's API (web/src/lib/wasm.ts) over the four ways loadWasm can end
\* ------------------------------------------------------------------------

\* "core": the built WASM core was imported and initialised;
\* "stub": dev server without a WASM build, the stub module of vite.config.ts;
\* "dev_failed": dev mode, the import or the initialisation threw;
\* "prod_failed": production build, the import or the initialisation threw.
Envs == {"core", "stub", "dev_failed", "prod_failed"}

\* loadWasm left `wasm` set
HasWasm(env) == env \in {"core", "stub"}

\* import.meta.env.DEV, where it is read
DEV(env) == env \in {"stub", "dev_failed"}

listTemplates(env) ==
    IF ~ HasWasm(env)
    THEN IF DEV(env) THEN [ok |-> TRUE, value |-> FALLBACK_TEMPLATES]
         ELSE [ok |-> FALSE, value |-> <<>>]
    ELSE LET listed == IF env = "stub" THEN <<>> ELSE CoreTemplates
         IN  [ok |-> TRUE,
              value |-> [i \in DOMAIN listed |-> normalizeTemplateInfo(listed[i])]]

\* list_features of the core is the catalogue; the stub's returns "[]"
listFeatures(env) ==
    IF ~ HasWasm(env)
    THEN IF DEV(env) THEN [ok |-> TRUE, value |-> FALLBACK_FEATURES]
         ELSE [ok |-> FALSE, value |-> <<>>]
    ELSE [ok |-> TRUE, value |-> IF env = "stub" THEN <<>> ELSE FALLBACK_FEATURES]

generate(env, options) ==
    IF ~ HasWasm(env)
    THEN IF DEV(env) THEN Ok(generateFallback(options))
         ELSE Err("WASM generation unavailable")
    ELSE IF env = "stub" THEN Ok(<<>>)
    ELSE CoreGenerate(options)

generateSdk(env, options) ==
    IF ~ HasWasm(env)
    THEN IF DEV(env) THEN Ok(<<>>)
         ELSE Err("WASM SDK generation unavailable")
    ELSE IF env = "stub" THEN Ok(<<>>)
    ELSE CoreGenerateSdk(options)

\* The stub's validate_custom returns "{}": an object without valid or errors.
validateCustom(env, options) ==
    IF ~ HasWasm(env)
    THEN IF DEV(env) THEN Invalid("WASM validator unavailable in dev fallback mode.")
         ELSE Err("WASM validation unavailable")
    ELSE IF env = "stub" THEN Invalid("undefined")
    ELSE CoreValidate(options)

\* get_template_info(slug) -> Template | NotFound
CoreGetTemplateInfo(slug) ==
    LET hits == {i \in DOMAIN CoreTemplates : CoreTemplates[i].slug = slug}
    IN  IF hits = {} THEN [ok |-> FALSE, error |-> "NotFound", value |-> <<>>]
        ELSE [ok |-> TRUE, error |-> "none", value |-> <<CoreTemplates[CHOOSE i \in hits : TRUE]>>]

\* FALLBACK_TEMPLATES.find((t) => t.slug === slug) ?? FALLBACK_TEMPLATES[0]
FindFallbackTemplate(slug) ==
    LET hits == {i \in DOMAIN FALLBACK_TEMPLATES : FALLBACK_TEMPLATES[i].slug = slug}
    IN  IF hits = {} THEN FALLBACK_TEMPLATES[1]
        ELSE FALLBACK_TEMPLATES[CHOOSE i \in hits : \A j \in hits : i <= j]

\* The value is the template, in a list of one; the stub's get_template_info
\* returns "{}", whose slug is undefined: slug.toLowerCase() throws.
getTemplateInfo(env, slug) ==
    IF ~ HasWasm(env)
    THEN IF DEV(env)
         THEN [ok |-> TRUE, error |-> "none",
               value |-> <<normalizeTemplateInfo(FindFallbackTemplate(slug))>>]
         ELSE [ok |-> FALSE, error |-> "WASM module unavailable", value |-> <<>>]
    ELSE IF env = "stub" THEN [ok |-> FALSE, error |-> "TypeError", value |-> <<>>]
    ELSE IF CoreGetTemplateInfo(slug).ok
    THEN [ok |-> TRUE, error |-> "none",
          value |-> <<normalizeTemplateInfo(CoreGetTemplateInfo(slug).value[1])>>]
    ELSE CoreGetTemplateInfo(slug)

\* ------------------------------------------------------------------------
\* Options
\* ------------------------------------------------------------------------
Options(template, ns, name, toggles, custom) ==
    [template |-> template, namespace |-> ns, project_name |-> name,
     time_lock |-> toggles[1], cancellable |-> toggles[2], partial_claim |-> toggles[3],
     custom |-> custom.given, purpose |-> custom.purpose, features |-> custom.features,
     datum |-> custom.datum, redeemer |-> custom.redeemer]

\* no purpose, features, datum or redeemer key
NoCustom == [given |-> FALSE, purpose |-> "spend", features |-> <<>>, datum |-> <<>>,
             redeemer |-> <<>>]

Custom(p, features, datum, redeemer) ==
    [given |-> TRUE, purpose |-> p, features |-> features, datum |-> datum,
     redeemer |-> redeemer]

NAME_myorg == <<"m", "y", "o", "r", "g">>

NAME_my_token == <<"m", "y", "_", "t", "o", "k", "e", "n">>

NAME_my_vesting == <<"m", "y", "_", "v", "e", "s", "t", "i", "n", "g">>

\* The requests of a caller of the API: catalogue slugs in short and long form,
\* a slug in another letter case, an unknown slug; identifiers and strings that
\* are none.
ApiTemplates ==
    {Slug.simple_mint, Slug.mint, Slug.vesting, Slug.escrow, Slug.dex_pool,
     <<"D", "e", "x", "-", "P", "o", "o", "l">>, <<"n", "o">>}

ApiNamespaces == {NAME_myorg, <<>>, <<"M", "y">>, <<"a", "-", "b">>}

ApiProjectNames == {NAME_my_token, NAME_my_vesting, <<>>, <<"b", " ">>}

ApiDatums ==
    {<<>>, <<"a", ":", "I", "n", "t">>,
     <<"a", ":", "I", "n", "t", ",", "a", ":", "I", "n", "t">>}

ApiOptions ==
    {Options(t, ns, name, toggles, NoCustom) :
        t \in ApiTemplates, ns \in ApiNamespaces, name \in ApiProjectNames,
        toggles \in BOOLEAN \X BOOLEAN \X BOOLEAN}
    \cup
    {Options(Slug.custom, ns, name, <<FALSE, FALSE, FALSE>>, Custom(p, f, d, <<>>)) :
        ns \in ApiNamespaces, name \in ApiProjectNames, p \in Purposes,
        f \in {<<>>, <<"timelock">>}, d \in ApiDatums}

NoApiResult == [ok |-> FALSE, error |-> "not called", files |-> <<>>, valid |-> FALSE]

DefaultOptions ==
    Options(Slug.mint, NAME_myorg, NAME_my_token, <<FALSE, FALSE, FALSE>>, NoCustom)

MaxClock == 2

ApiIdle ==
    /\ api_env = "core"
    /\ api_fn = "none"
    /\ api_options = DefaultOptions
    /\ api_result = NoApiResult
    /\ api_clock = 0
    /\ api_again = NoApiResult

\* A caller is about to call one function of the API; the list functions
\* take no argument, getTemplateInfo takes a slug.
InitApiCall ==
    /\ api_env \in Envs
    /\ \/ /\ api_fn \in {"generate", "generateSdk", "validateCustom"}
          /\ api_options \in ApiOptions
       \/ /\ api_fn \in {"listTemplates", "listFeatures"}
          /\ api_options = DefaultOptions
       \/ /\ api_fn = "getTemplateInfo"
          /\ \E t \in ApiTemplates : api_options = [DefaultOptions EXCEPT !.template = t]
    /\ api_result = NoApiResult
    /\ api_clock = 0
    /\ api_again = NoApiResult

\* what the call returns or throws, once loadWasm has settled as env says
ApiCall(fn, env, options) ==
    CASE fn = "generate"        -> generate(env, options)
      [] fn = "generateSdk"     -> generateSdk(env, options)
      [] fn = "validateCustom"  -> validateCustom(env, options)
      [] fn = "listTemplates"   -> listTemplates(env)
      [] fn = "listFeatures"    -> listFeatures(env)
      [] fn = "getTemplateInfo" -> getTemplateInfo(env, options.template)

FirstCall(fn) ==
    /\ api_fn = fn
    /\ api_result = NoApiResult
    /\ UNCHANGED <<api_env, api_fn, api_options, api_clock, api_again, notApi>>

\* await generate(options)
CallGenerate ==
    /\ FirstCall("generate")
    /\ api_result' = generate(api_env, api_options)

\* await generateSdk(options)
CallGenerateSdk ==
    /\ FirstCall("generateSdk")
    /\ api_result' = generateSdk(api_env, api_options)

\* await validateCustom(options)
CallValidateCustom ==
    /\ FirstCall("validateCustom")
    /\ api_result' = validateCustom(api_env, api_options)

\* await listTemplates()
CallListTemplates ==
    /\ FirstCall("listTemplates")
    /\ api_result' = listTemplates(api_env)

\* await listFeatures()
CallListFeatures ==
    /\ FirstCall("listFeatures")
    /\ api_result' = listFeatures(api_env)

\* await getTemplateInfo(slug)
CallGetTemplateInfo ==
    /\ FirstCall("getTemplateInfo")
    /\ api_result' = getTemplateInfo(api_env, api_options.template)

\* Time passes, other callers make their calls.
Tick ==
    /\ api_clock < MaxClock
    /\ api_clock' = api_clock + 1
    /\ UNCHANGED <<api_env, api_fn, api_options, api_result, api_again, notApi>>

\* an independent second call with the same arguments
CallAgain ==
    /\ api_result # NoApiResult
    /\ api_again = NoApiResult
    /\ api_again' = ApiCall(api_fn, api_env, api_options)
    /\ UNCHANGED <<api_env, api_fn, api_options, api_result, api_clock, notApi>>

\* ------------------------------------------------------------------------
\* The wizard (web/src/pages/Docs.tsx, web/src/components/DownloadButton.tsx)
\*
\* Every API call awaits loadWasm first.  Until the load settles the calls
\* wait in the order they were made, and the user can go on changing the
\* configuration; afterwards a call's continuations are microtasks, which
\* run, one API call per turn and first come first served, before the next
\* render or user event.
\* ------------------------------------------------------------------------
MaxUpdates == 3

\* { ...DEFAULT_CONFIG }: absent flags read as false, absent lists as empty
DEFAULT_CONFIG ==
    [template |-> Slug.mint, namespace |-> NAME_myorg, project_name |-> NAME_my_token,
     purpose |-> "spend", time_lock |-> FALSE, cancellable |-> FALSE,
     partial_claim |-> FALSE, features |-> <<>>, datum_fields |-> <<>>,
     redeemer_actions |-> <<>>, generate_sdk |-> FALSE]

\* every flag of the configuration is sent, whatever the template
BuildOptions_all_flags(cfg) ==
    Options(toLongTemplateSlug(cfg.template), cfg.namespace, cfg.project_name,
            <<cfg.time_lock, cfg.cancellable, cfg.partial_claim>>,
            IF toShortTemplateSlug(cfg.template) = Slug.custom
            THEN Custom(cfg.purpose, cfg.features,
                        serializeDatumFields(cfg.datum_fields),
                        serializeRedeemerActions(cfg.redeemer_actions))
            ELSE NoCustom)

\* regenerate: the options built from cfg.  The feature list is joined with
\* commas for the core, which splits it again; no feature name holds a comma.
BuildOptions(cfg) ==
    Options(toLongTemplateSlug(cfg.template), cfg.namespace, cfg.project_name,
            << toShortTemplateSlug(cfg.template) = Slug.mint /\ cfg.time_lock,
               toShortTemplateSlug(cfg.template) = Slug.vesting /\ cfg.cancellable,
               toShortTemplateSlug(cfg.template) = Slug.vesting /\ cfg.partial_claim >>,
            IF toShortTemplateSlug(cfg.template) = Slug.custom
            THEN Custom(cfg.purpose, cfg.features,
                        serializeDatumFields(cfg.datum_fields),
                        serializeRedeemerActions(cfg.redeemer_actions))
            ELSE NoCustom)

\* A call of regenerate(cfg) that has run up to its first await.  `supports`
\* is templateSupportsSdk(cfg.template) of the render that made the callback.
RegenerateCall(cfg, templates) ==
    [kind |-> "regenerate", cfg |-> cfg, options |-> BuildOptions(cfg),
     pc |-> IF toShortTemplateSlug(cfg.template) = Slug.custom
            THEN "validateCustom" ELSE "generate",
     supports |-> templateSupportsSdk(templates, cfg.template)]

\* listTemplates().then(setTemplates).catch(() => {})
ListTemplatesCall ==
    [kind |-> "listTemplates", cfg |-> DEFAULT_CONFIG,
     options |-> BuildOptions(DEFAULT_CONFIG), pc |-> "listTemplates",
     supports |-> FALSE]

\* f.path.startsWith(prefix)
StartsWith(path, prefix) ==
    /\ Len(path) >= Len(prefix)
    /\ SubSeq(path, 1, Len(prefix)) = prefix

\* validator?.path ?? generated[0].path
DefaultActiveFile(generated) ==
    LET hits == {i \in DOMAIN generated : StartsWith(generated[i].path, Lit.VALIDATORS_DIR)}
    IN  IF hits = {} THEN generated[1].path
        ELSE generated[CHOOSE i \in hits : \A j \in hits : i <= j].path

\* const allFiles = [...files, ...sdkFiles]
allFiles == w_files \o w_sdkFiles

\* The templates the user picks, and what is typed into the two text boxes.
WizardTemplates == {Slug.mint, Slug.vesting, Slug.dex, Slug.custom}

TypedNamespaces == {<<"a">>, <<"A">>}

TypedProjectNames == {<<"p">>, <<"-">>}

\* A user event is a task of its own: it runs when no continuation is
\* runnable and the pending render has been done.
Interactive ==
    /\ w_updates < MaxUpdates
    /\ ~ w_dirty
    /\ w_wasm = "pending" \/ w_queue = <<>>

\* setConfig(next), the render, and the effect's regenerate(next) up to its
\* first await: setLoading(true), setError(null), the options, the API call.
SetConfig(next, active) ==
    /\ w_config' = next
    /\ w_activeFile' = active
    /\ w_activeFileRef' = active
    /\ w_loading' = TRUE
    /\ w_error' = NULL
    /\ w_queue' = Append(w_queue, RegenerateCall(next, w_templates))
    /\ w_updates' = w_updates + 1
    /\ w_seen' = w_seen \cup {next}
    /\ w_overlap' = (w_overlap \/ \E i \in DOMAIN w_queue : w_queue[i].kind = "regenerate")
    /\ UNCHANGED <<w_env, w_wasm, w_templates, w_files, w_sdkFiles, w_dirty,
                   w_failed, notWizard>>

\* the SDK option survives the change of template
SelectTemplate_keeps_sdk ==
    /\ Interactive
    /\ \E t \in WizardTemplates :
         SetConfig([w_config EXCEPT !.template = toShortTemplateSlug(t)], <<>>)

\* updateConfig({ template })
SelectTemplate ==
    /\ Interactive
    /\ \E t \in WizardTemplates :
         SetConfig([w_config EXCEPT
                      !.template = toShortTemplateSlug(t),
                      !.generate_sdk = @ /\ templateSupportsSdk(w_templates,
                                                               toShortTemplateSlug(t))],
                   <<>>)

\* updateConfig({ namespace: v.replace(/[^a-z0-9_]/g, '') })
SetNamespace ==
    /\ Interactive
    /\ \E v \in TypedNamespaces :
         SetConfig([w_config EXCEPT !.namespace = SanitizeFieldName(v)], w_activeFile)

\* updateConfig({ project_name: v.replace(/[^a-z0-9_]/g, '') })
SetProjectName ==
    /\ Interactive
    /\ \E v \in TypedProjectNames :
         SetConfig([w_config EXCEPT !.project_name = SanitizeFieldName(v)], w_activeFile)

\* the Time Lock toggle, rendered for mint
ToggleTimeLock ==
    /\ Interactive
    /\ toShortTemplateSlug(w_config.template) = Slug.mint
    /\ SetConfig([w_config EXCEPT !.time_lock = ~ @], w_activeFile)

\* the Cancellable toggle, rendered for vesting
ToggleCancellable ==
    /\ Interactive
    /\ toShortTemplateSlug(w_config.template) = Slug.vesting
    /\ SetConfig([w_config EXCEPT !.cancellable = ~ @], w_activeFile)

\* the Partial Claim toggle, rendered for vesting
TogglePartialClaim ==
    /\ Interactive
    /\ toShortTemplateSlug(w_config.template) = Slug.vesting
    /\ SetConfig([w_config EXCEPT !.partial_claim = ~ @], w_activeFile)

\* the Generate TypeScript SDK checkbox, disabled={!supportsSdk}
ToggleGenerateSdk ==
    /\ Interactive
    /\ templateSupportsSdk(w_templates, w_config.template)
    /\ SetConfig([w_config EXCEPT !.generate_sdk = ~ @], w_activeFile)

\* loadWasm: the import and initialisation settle, as w_env says
WasmSettles ==
    /\ w_wasm = "pending"
    /\ w_wasm' = "settled"
    /\ UNCHANGED <<w_env, w_templates, w_config, w_files, w_sdkFiles, w_activeFile,
                   w_activeFileRef, w_error, w_loading, w_queue, w_dirty,
                   w_updates, w_seen, w_failed, w_overlap, notWizard>>

Runnable(pc) ==
    /\ w_wasm = "settled"
    /\ w_queue # <<>>
    /\ Head(w_queue).pc = pc

\* the templates are set, and regenerate stays the callback it was
ThenSetTemplates_same_callback(r) ==
    /\ w_templates' = IF r.ok THEN r.value ELSE w_templates
    /\ w_dirty' = FALSE

\* .then(setTemplates): a new array, so templateSupportsSdk and regenerate
\* are new callbacks at the next render
ThenSetTemplates(r) ==
    /\ w_templates' = IF r.ok THEN r.value ELSE w_templates
    /\ w_dirty' = r.ok

ListTemplatesResolves ==
    /\ Runnable("listTemplates")
    /\ ThenSetTemplates(listTemplates(w_env))
    /\ w_queue' = Tail(w_queue)
    /\ UNCHANGED <<w_env, w_wasm, w_config, w_files, w_sdkFiles, w_activeFile,
                   w_activeFileRef, w_error, w_loading, w_updates, w_seen,
                   w_failed, w_overlap, notWizard>>

\* catch (e) { setError(...) } finally { setLoading(false) }
Catch(message) ==
    /\ w_error' = message
    /\ w_loading' = FALSE
    /\ w_failed' = TRUE
    /\ UNCHANGED w_overlap
    /\ w_queue' = Tail(w_queue)

\* the call goes on to its next await
Await(call, pc) ==
    /\ w_queue' = Append(Tail(w_queue), [call EXCEPT !.pc = pc])
    /\ UNCHANGED <<w_error, w_loading, w_failed, w_overlap>>

\* the result of the validation is not looked at
AfterValidateCustom_unchecked(call, validation) == Await(call, "generate")

\* const validation = await validateCustom(options); if (!validation.valid) throw
AfterValidateCustom(call, validation) ==
    IF validation.ok /\ validation.valid
    THEN Await(call, "generate")
    ELSE Catch(validation.error)

ValidateCustomResolves ==
    /\ Runnable("validateCustom")
    /\ AfterValidateCustom(Head(w_queue), validateCustom(w_env, Head(w_queue).options))
    /\ UNCHANGED <<w_env, w_wasm, w_templates, w_config, w_files, w_sdkFiles,
                   w_activeFile, w_activeFileRef, w_dirty, w_updates, w_seen,
                   notWizard>>

\* const generated = await generate(options); setFiles(generated); ...
AfterGenerate(call, generated) ==
    IF ~ generated.ok
    THEN /\ Catch(generated.error)
         /\ UNCHANGED <<w_files, w_sdkFiles, w_activeFile>>
    ELSE /\ w_files' = generated.files
         /\ w_activeFile' = IF generated.files # <<>> /\ w_activeFileRef = <<>>
                            THEN DefaultActiveFile(generated.files)
                            ELSE w_activeFile
         /\ IF call.cfg.generate_sdk /\ call.supports
            THEN /\ Await(call, "generateSdk")
                 /\ UNCHANGED w_sdkFiles
            ELSE /\ w_sdkFiles' = <<>>
                 /\ w_loading' = FALSE
                 /\ w_queue' = Tail(w_queue)
                 /\ UNCHANGED <<w_error, w_failed, w_overlap>>

GenerateResolves ==
    /\ Runnable("generate")
    /\ AfterGenerate(Head(w_queue), generate(w_env, Head(w_queue).options))
    /\ UNCHANGED <<w_env, w_wasm, w_templates, w_config, w_activeFileRef, w_dirty,
                   w_updates, w_seen, notWizard>>

\* const sdk = await generateSdk(options); setSdkFiles(sdk)
AfterGenerateSdk(sdk) ==
    IF ~ sdk.ok
    THEN /\ Catch(sdk.error)
         /\ UNCHANGED w_sdkFiles
    ELSE /\ w_sdkFiles' = sdk.files
         /\ w_loading' = FALSE
         /\ w_queue' = Tail(w_queue)
         /\ UNCHANGED <<w_error, w_failed, w_overlap>>

GenerateSdkResolves ==
    /\ Runnable("generateSdk")
    /\ AfterGenerateSdk(generateSdk(w_env, Head(w_queue).options))
    /\ UNCHANGED <<w_env, w_wasm, w_templates, w_config, w_files, w_activeFile,
                   w_activeFileRef, w_dirty, w_updates, w_seen, notWizard>>

\* The render after the continuations have run, with new templates: the
\* effect on [config, regenerate] calls regenerate(config); the effect on
\* templateSupportsSdk clears generate_sdk when the template has no SDK,
\* which asks for one more render.
Render ==
    /\ w_wasm = "settled"
    /\ w_queue = <<>>
    /\ w_dirty
    /\ w_activeFileRef' = w_activeFile
    /\ w_loading' = TRUE
    /\ w_error' = NULL
    /\ w_queue' = <<RegenerateCall(w_config, w_templates)>>
    /\ w_dirty' = (w_config.generate_sdk
                     /\ ~ templateSupportsSdk(w_templates, w_config.template))
    /\ w_config' = [w_config EXCEPT
                      !.generate_sdk = @ /\ templateSupportsSdk(w_templates,
                                                               w_config.template)]
    /\ w_seen' = w_seen \cup {w_config'}
    /\ UNCHANGED <<w_env, w_wasm, w_templates, w_files, w_sdkFiles, w_activeFile,
                   w_updates, w_failed, w_overlap, notWizard>>

\* The wizard after it is mounted: both effects have run, listTemplates and
\* regenerate(config) wait for the WASM load that the first of them started.
Mounted(env) ==
    /\ w_env = env
    /\ w_wasm = "pending"
    /\ w_templates = listTemplatesFallback
    /\ w_config = DEFAULT_CONFIG
    /\ w_files = <<>>
    /\ w_sdkFiles = <<>>
    /\ w_activeFile = <<>>
    /\ w_activeFileRef = <<>>
    /\ w_error = NULL
    /\ w_loading = TRUE
    /\ w_queue = <<ListTemplatesCall, RegenerateCall(DEFAULT_CONFIG, listTemplatesFallback)>>
    /\ w_dirty = FALSE
    /\ w_updates = 0
    /\ w_seen = {DEFAULT_CONFIG}
    /\ w_failed = FALSE
    /\ w_overlap = FALSE

WizardIdle == Mounted("core")

InitWizardMounted == \E env \in Envs : Mounted(env)

\* ------------------------------------------------------------------------
\* The feature checkboxes (web/src/components/CustomConfig.tsx)
\* ------------------------------------------------------------------------

\* features.find((f) => f.name === name)?.depends_on ?? []
DependsOnIn(features, name) ==
    LET hits == {i \in DOMAIN features : features[i].name = name}
    IN  IF hits = {} THEN <<>>
        ELSE features[CHOOSE i \in hits : \A j \in hits : i <= j].depends_on

AppendNew(s, x) == IF x \in Range(s) THEN s ELSE Append(s, x)

\* [...new Set(s)]: the first occurrence of each element, in order
RECURSIVE SetOrder(_)
SetOrder(s) ==
    IF s = <<>> THEN <<>>
    ELSE AppendNew(SetOrder(SubSeq(s, 1, Len(s) - 1)), s[Len(s)])

\* a feature is added without the features it depends on
toggleFeature_without_deps(features, selectedFeatures, name) ==
    IF name \in Range(selectedFeatures)
    THEN SelectSeq(selectedFeatures, LAMBDA f : f # name)
    ELSE SetOrder(selectedFeatures \o <<name>>)

toggleFeature(features, selectedFeatures, name) ==
    IF name \in Range(selectedFeatures)
    THEN SelectSeq(selectedFeatures, LAMBDA f : f # name)
    ELSE SetOrder(selectedFeatures \o <<name>> \o DependsOnIn(features, name))

\* the checkbox is never disabled
isDep_never(features, selectedFeatures, name) == FALSE

\* selectedFeatures.some((sel) => features.find(...)?.depends_on.includes(f.name))
isDep(features, selectedFeatures, name) ==
    \E i \in DOMAIN selectedFeatures :
        name \in Range(DependsOnIn(features, selectedFeatures[i]))

NoToggle == [name |-> "none", before |-> <<>>, removed |-> FALSE]

\* CustomConfig after it is mounted: no feature selected, the fallback list
\* shown, listFeatures() awaiting the WASM load.
FeaturesMounted(env) ==
    /\ ft_env = env
    /\ ft_pending = TRUE
    /\ ft_features = FALLBACK_FEATURES
    /\ ft_selected = <<>>
    /\ ft_last = NoToggle

FeaturesIdle == FeaturesMounted("core")

\* listFeaturesFallback() is FALLBACK_FEATURES
InitFeaturesMounted == \E env \in Envs : FeaturesMounted(env)

\* listFeatures().then(setFeatures).catch(() => {})
ListFeaturesResolves ==
    /\ ft_pending
    /\ ft_pending' = FALSE
    /\ ft_features' = IF listFeatures(ft_env).ok THEN listFeatures(ft_env).value
                      ELSE ft_features
    /\ UNCHANGED <<ft_env, ft_selected, ft_last, notFeatures>>

\* A click on the checkbox of a listed feature, unless it is disabled:
\* onChange({ features: toggleFeature(name) })
ToggleFeature ==
    \E i \in DOMAIN ft_features :
        /\ ~ (isDep(ft_features, ft_selected, ft_features[i].name)
                /\ ft_features[i].name \in Range(ft_selected))
        /\ ft_selected' = toggleFeature(ft_features, ft_selected, ft_features[i].name)
        /\ ft_last' = [name |-> ft_features[i].name, before |-> ft_selected,
                       removed |-> ft_features[i].name \in Range(ft_selected)]
        /\ UNCHANGED <<ft_env, ft_pending, ft_features, notFeatures>>

\* ------------------------------------------------------------------------
\* The loader of the WASM module (web/src/lib/wasm.ts: loadWasm)
\*
\* JavaScript runs a caller up to its first await without interruption, so a
\* call of loadWasm up to `await loading` is one step; the import, the
\* initialisation and each caller's resumption are steps of their own.
\* ------------------------------------------------------------------------

\* the API functions that await loadWasm
Callers == {"listTemplates", "listFeatures", "regenerate"}

MaxLoadCalls == 4

\* let wasm = null; let loading = null; let wasmFailed = false
LoaderIdle ==
    /\ ld_wasm = "null"
    /\ ld_wasmFailed = FALSE
    /\ ld_loading = "null"
    /\ ld_stage = "none"
    /\ ld_started = 0
    /\ ld_pc = [c \in Callers |-> "idle"]
    /\ ld_calls = 0

\* every caller starts the import it does not see in `loading`
LoadWasmCall_unguarded(c) ==
    /\ ld_pc[c] # "awaiting"
    /\ ld_calls < MaxLoadCalls
    /\ ld_calls' = ld_calls + 1
    /\ IF ld_wasm # "null" \/ ld_wasmFailed
       THEN /\ ld_pc' = [ld_pc EXCEPT ![c] = "returned"]
            /\ UNCHANGED <<ld_loading, ld_stage, ld_started>>
       ELSE /\ ld_loading' = "pending"
            /\ ld_stage' = "import"
            /\ ld_started' = ld_started + 1
            /\ ld_pc' = [ld_pc EXCEPT ![c] = "awaiting"]
    /\ UNCHANGED <<ld_wasm, ld_wasmFailed, notLoader>>

\* loadWasm() up to its first await
LoadWasmCall(c) ==
    /\ ld_pc[c] # "awaiting"
    /\ ld_calls < MaxLoadCalls
    /\ ld_calls' = ld_calls + 1
    /\ IF ld_wasm # "null" \/ ld_wasmFailed
       THEN /\ ld_pc' = [ld_pc EXCEPT ![c] = "returned"]
            /\ UNCHANGED <<ld_loading, ld_stage, ld_started>>
       ELSE IF ld_loading # "null"
       THEN /\ ld_pc' = [ld_pc EXCEPT ![c] = "awaiting"]
            /\ UNCHANGED <<ld_loading, ld_stage, ld_started>>
       ELSE /\ ld_loading' = "pending"
            /\ ld_stage' = "import"
            /\ ld_started' = ld_started + 1
            /\ ld_pc' = [ld_pc EXCEPT ![c] = "awaiting"]
    /\ UNCHANGED <<ld_wasm, ld_wasmFailed, notLoader>>

\* catch { wasmFailed = true; console.warn(...) }: the load is over
LoadFails ==
    /\ ld_wasmFailed' = TRUE
    /\ ld_stage' = "done"
    /\ ld_loading' = "settled"
    /\ UNCHANGED <<ld_wasm, ld_started, ld_pc, ld_calls, notLoader>>

\* const mod = await import('../wasm/kaido_core')
ImportResolves ==
    /\ ld_stage = "import"
    /\ ld_stage' = "init"
    /\ UNCHANGED <<ld_wasm, ld_wasmFailed, ld_loading, ld_started, ld_pc, ld_calls,
                   notLoader>>

ImportRejects ==
    /\ ld_stage = "import"
    /\ LoadFails

\* await mod.default(); wasm = mod
InitResolves ==
    /\ ld_stage = "init"
    /\ ld_wasm' = "mod"
    /\ ld_stage' = "done"
    /\ ld_loading' = "settled"
    /\ UNCHANGED <<ld_wasmFailed, ld_started, ld_pc, ld_calls, notLoader>>

InitRejects ==
    /\ ld_stage = "init"
    /\ LoadFails

\* await loading is over: loadWasm returns to its caller
LoadWasmReturns(c) ==
    /\ ld_pc[c] = "awaiting"
    /\ ld_loading = "settled"
    /\ ld_pc' = [ld_pc EXCEPT ![c] = "returned"]
    /\ UNCHANGED <<ld_wasm, ld_wasmFailed, ld_loading, ld_stage, ld_started, ld_calls,
                   notLoader>>

CallsLoadWasm == \E c \in Callers : LoadWasmCall(c)

ReturnsFromLoadWasm == \E c \in Callers : LoadWasmReturns(c)

\* ------------------------------------------------------------------------
\* Conversion of template slugs (web/src/lib/template-icons:
\* toShortTemplateSlug, toLongTemplateSlug)
\* ------------------------------------------------------------------------

MaxSlugCalls == 2

\* String.prototype.toUpperCase, on ASCII letters
toUpperCase(s) ==
    [i \in DOMAIN s |->
        IF \E k \in DOMAIN LowerAlphabet : LowerAlphabet[k] = s[i]
        THEN UpperAlphabet[CHOOSE k \in DOMAIN LowerAlphabet : LowerAlphabet[k] = s[i]]
        ELSE s[i]]

Capitalised(s) == [i \in DOMAIN s |-> IF i = 1 THEN toUpperCase(s)[i] ELSE s[i]]

Hyphenated(s) == [i \in DOMAIN s |-> IF s[i] = "_" THEN "-" ELSE s[i]]

\* The template slugs, short and long
TemplateSlugs == {Slug[k] : k \in DOMAIN Slug}

\* A template slug as a caller may write it: in lower case, in upper case or
\* capitalised, with underscores or with hyphens.
SlugInputs ==
    UNION {{s, toUpperCase(s), Capitalised(s), Hyphenated(s),
            Hyphenated(toUpperCase(s)), Hyphenated(Capitalised(s))} :
           s \in TemplateSlugs}

SlugIdle ==
    /\ sl_slug = <<>>
    /\ sl_calls = <<>>
    /\ sl_values = <<>>

\* the last value obtained
SlugValue == sl_values[Len(sl_values)]

\* toShortTemplateSlug(value)
CallToShortTemplateSlug ==
    /\ sl_values # <<>>
    /\ Len(sl_calls) < MaxSlugCalls
    /\ sl_calls' = Append(sl_calls, "toShortTemplateSlug")
    /\ sl_values' = Append(sl_values, toShortTemplateSlug(SlugValue))
    /\ UNCHANGED <<sl_slug, notSlug>>

\* toLongTemplateSlug(value)
CallToLongTemplateSlug ==
    /\ sl_values # <<>>
    /\ Len(sl_calls) < MaxSlugCalls
    /\ sl_calls' = Append(sl_calls, "toLongTemplateSlug")
    /\ sl_values' = Append(sl_values, toLongTemplateSlug(SlugValue))
    /\ UNCHANGED <<sl_slug, notSlug>>

\* ------------------------------------------------------------------------
\* Specifications
\* ------------------------------------------------------------------------
InitResolver ==
    InitResolverInputs /\ EditorIdle /\ VerifierIdle /\ MatrixIdle /\ ApiIdle
        /\ WizardIdle
        /\ FeaturesIdle
        /\ LoaderIdle
        /\ SlugIdle

NextResolver == DoResolve

SpecResolver == InitResolver /\ [][NextResolver]_vars

InitParser ==
    InitEditor /\ ResolverIdle /\ VerifierIdle /\ MatrixIdle /\ ApiIdle
        /\ WizardIdle
        /\ FeaturesIdle
        /\ LoaderIdle
        /\ SlugIdle

NextParser ==
    \/ addDatumField
    \/ updateDatumField
    \/ removeDatumField
    \/ addRedeemerAction
    \/ updateActionName
    \/ removeAction
    \/ addActionField
    \/ updateActionField
    \/ removeActionField
    \/ Serialize
    \/ Damage
    \/ Parse

SpecParser == InitParser /\ [][NextParser]_vars

\* Either a verification run of the core, or the security matrix script.
InitVerifier ==
    /\ SlugIdle
    /\ LoaderIdle
    /\ FeaturesIdle
    /\ ResolverIdle
    /\ EditorIdle
    /\ ApiIdle
    /\ WizardIdle
    /\ \/ InitVerify /\ MatrixIdle
       \/ VerifierIdle /\ InitMatrix

NextVerifier ==
    \/ VerifySkip
    \/ VerifyStart
    \/ ToolHangs
    \/ CompileEnds
    \/ TestEnds
    \/ ScanEnds
    \/ ShLoop
    \/ ShGenerate
    \/ ShRemoveProfile
    \/ ShAikenCheck
    \/ ShScan
    \/ ShCount
    \/ ShDetectors
    \/ ShEcho

SpecVerifier == InitVerifier /\ [][NextVerifier]_vars

\* One verification run on its own, the external-tool steps taken fairly:
\* a stage whose tool has been invoked ends, by the tool's exit or by the
\* timeout.  That a tool hangs is not a step anybody is bound to take.
InitVerifierRun ==
    InitVerify /\ MatrixIdle /\ ResolverIdle /\ EditorIdle /\ ApiIdle /\ WizardIdle
        /\ FeaturesIdle
        /\ LoaderIdle
        /\ SlugIdle

NextVerifierRun ==
    \/ VerifySkip
    \/ VerifyStart
    \/ ToolHangs
    \/ CompileEnds
    \/ TestEnds
    \/ ScanEnds

SpecVerifierFair ==
    /\ InitVerifierRun
    /\ [][NextVerifierRun]_vars
    /\ WF_vars(VerifySkip)
    /\ WF_vars(VerifyStart)
    /\ WF_vars(CompileEnds)
    /\ WF_vars(TestEnds)
    /\ WF_vars(ScanEnds)

InitApi ==
    InitApiCall /\ ResolverIdle /\ EditorIdle /\ VerifierIdle /\ MatrixIdle
        /\ WizardIdle
        /\ FeaturesIdle
        /\ LoaderIdle
        /\ SlugIdle

NextApi ==
    \/ CallGenerate
    \/ CallGenerateSdk
    \/ CallValidateCustom
    \/ CallListTemplates
    \/ CallListFeatures
    \/ CallGetTemplateInfo
    \/ Tick
    \/ CallAgain

SpecApi == InitApi /\ [][NextApi]_vars

InitWizard ==
    InitWizardMounted /\ ResolverIdle /\ EditorIdle /\ VerifierIdle /\ MatrixIdle
        /\ ApiIdle
        /\ FeaturesIdle
        /\ LoaderIdle
        /\ SlugIdle

NextWizard ==
    \/ SelectTemplate
    \/ SetNamespace
    \/ SetProjectName
    \/ ToggleTimeLock
    \/ ToggleCancellable
    \/ TogglePartialClaim
    \/ ToggleGenerateSdk
    \/ WasmSettles
    \/ ListTemplatesResolves
    \/ ValidateCustomResolves
    \/ GenerateResolves
    \/ GenerateSdkResolves
    \/ Render

SpecWizard == InitWizard /\ [][NextWizard]_vars

InitFeatures ==
    InitFeaturesMounted /\ ResolverIdle /\ EditorIdle /\ VerifierIdle /\ MatrixIdle
        /\ ApiIdle /\ WizardIdle
        /\ LoaderIdle
        /\ SlugIdle

NextFeatures ==
    \/ ListFeaturesResolves
    \/ ToggleFeature

SpecFeatures == InitFeatures /\ [][NextFeatures]_vars

InitLoader ==
    LoaderIdle /\ ResolverIdle /\ EditorIdle /\ VerifierIdle /\ MatrixIdle
        /\ ApiIdle /\ WizardIdle /\ FeaturesIdle
        /\ SlugIdle

NextLoader ==
    \/ CallsLoadWasm
    \/ ImportResolves
    \/ ImportRejects
    \/ InitResolves
    \/ InitRejects
    \/ ReturnsFromLoadWasm

SpecLoader == InitLoader /\ [][NextLoader]_vars

InitSlug ==
    /\ sl_slug \in SlugInputs
    /\ sl_calls = <<>>
    /\ sl_values = <<sl_slug>>
    /\ LoaderIdle /\ ResolverIdle /\ EditorIdle /\ VerifierIdle /\ MatrixIdle
    /\ ApiIdle /\ WizardIdle /\ FeaturesIdle

NextSlug ==
    \/ CallToShortTemplateSlug
    \/ CallToLongTemplateSlug

SpecSlug == InitSlug /\ [][NextSlug]_vars


\* ------------------------------------------------------------------------
\* Properties of the resolver
\* ------------------------------------------------------------------------

\* The requested set in declaration order, without duplicates.
RECURSIVE InDeclarationOrder(_)
InDeclarationOrder(S) ==
    IF S = {} THEN <<>>
    ELSE LET n == CHOOSE x \in S : \A y \in S : FeatureIndex(x) <= FeatureIndex(y)
         IN  <<n>> \o InDeclarationOrder(S \ {n})

\* a depends on b, directly or transitively, or the other way round
DependencyRelated(a, b) == a \in Closure({b}) \/ b \in Closure({a})

\* C1: the resolved set of a requested set R contains R and is closed under
\* depends_on (so it holds every transitive dependency); resolving catalogue
\* features fails for no other reason than a purpose conflict; and, as the
\* README documents, value-preservation brings in datum-continuity.
C1_ClosureCorrect ==
    resolved # NoResult =>
        /\ resolved.ok =>
              /\ Range(requested) \subseteq resolved.set
              /\ \A n \in resolved.set : DependsOn(n) \subseteq resolved.set
              /\ resolved.set \subseteq FeatureNames
              /\ "value-preservation" \in Range(requested)
                    => "datum-continuity" \in resolved.set
        /\ ~ resolved.ok => resolved.error = "PurposeConflict"

\* A dependency that was not requested has been added by the resolver.
C1_Witness ==
    /\ resolved.ok
    /\ requested = <<"value-preservation">>
    /\ resolved.set = {"value-preservation", "datum-continuity"}

\* C2: the render order is a permutation of the resolved set, no feature
\* comes before one of its dependencies, features unrelated by dependency
\* come in declaration order, and the order is that of the requested set
\* listed once, in declaration order (so every reordering or duplication of
\* the same set gives the same order).
C2_RenderOrder ==
    (resolved # NoResult /\ resolved.ok) =>
        LET o == resolved.order IN
        /\ Len(o) = Cardinality(resolved.set)
        /\ Range(o) = resolved.set
        /\ \A i, j \in DOMAIN o : o[j] \in DependsOn(o[i]) => j < i
        /\ \A i, j \in DOMAIN o :
              (i < j /\ ~ DependencyRelated(o[i], o[j]))
                  => FeatureIndex(o[i]) < FeatureIndex(o[j])
        /\ o = Resolve(purpose, InDeclarationOrder(Range(requested))).order

\* A request with a duplicate, listed against declaration order, whose
\* closure adds a dependency.
C2_Witness ==
    /\ resolved.ok
    /\ requested = <<"bounded-operations", "signature-auth", "bounded-operations">>
    /\ resolved.order = <<"signature-auth", "datum-continuity", "bounded-operations">>

\* C3: when the closure of the request holds a feature whose declared
\* purpose is not the requested one, resolve fails with PurposeConflict
\* naming such a feature and the purpose it expects; a resolved set never
\* holds such a feature; burn-verification ("mint-only") is always refused
\* for a spend validator.
C3_PurposeRejection ==
    resolved # NoResult =>
        LET conflicting == { n \in Closure(Range(requested)) :
                                FindFeature(n).purpose \notin {NULL, purpose} }
        IN  /\ conflicting # {} =>
                  /\ ~ resolved.ok
                  /\ resolved.error = "PurposeConflict"
                  /\ resolved.feature \in conflicting
                  /\ resolved.expected = FindFeature(resolved.feature).purpose
                  /\ resolved.set = {}
            /\ resolved.ok =>
                  \A n \in resolved.set : FindFeature(n).purpose \in {NULL, purpose}
            /\ ("burn-verification" \in Range(requested) /\ purpose = "spend")
                  => resolved.error = "PurposeConflict"
            /\ ("timelock" \in Range(requested) /\ purpose = "mint")
                  => resolved.error = "PurposeConflict"

\* A spend-only feature pulled in as a dependency is refused for a mint
\* validator.
C3_Witness ==
    /\ purpose = "mint"
    /\ requested = <<"burn-verification", "reference-safety">>
    /\ resolved.error = "PurposeConflict"
    /\ resolved.feature = "datum-continuity"

\* ------------------------------------------------------------------------
\* Properties of the serializers and the parser
\* ------------------------------------------------------------------------

\* Every name is a field identifier and no name occurs twice.
ValidFieldSeq(fields) ==
    /\ \A i \in DOMAIN fields :
          /\ fields[i].name # <<>>
          /\ fields[i].name[1] \in LowerChars
          /\ Range(fields[i].name) \subseteq LowerChars \cup DigitChars \cup {"_"}
          /\ fields[i].field_type \in Range(FIELD_TYPES)
    /\ \A i, j \in DOMAIN fields : fields[i].name = fields[j].name => i = j

ValidActionSeq(actions) ==
    /\ \A i \in DOMAIN actions :
          /\ actions[i].name # <<>>
          /\ actions[i].name[1] \in LowerChars \cup UpperChars
          /\ Range(actions[i].name) \subseteq LowerChars \cup UpperChars \cup DigitChars
          /\ ValidFieldSeq(actions[i].fields)
    /\ \A i, j \in DOMAIN actions : actions[i].name = actions[j].name => i = j

\* C9: parsing the serialized form of a sequence of fields (actions) with
\* valid, pairwise distinct names gives back the same sequence: names, types
\* and order; the empty sequence and zero-field actions included.
C9_RoundTrip ==
    (phase = "parsed" /\ damage = "none") =>
        /\ (grammar = "datum" /\ ValidFieldSeq(datum_fields))
              => (parsed.ok /\ parsed.value = datum_fields)
        /\ (grammar = "redeemer" /\ ValidActionSeq(redeemer_actions))
              => (parsed.ok /\ parsed.value = redeemer_actions)

\* An action list with a zero-field action and an action with a field has
\* been serialized and parsed back.
C9_Witness ==
    /\ phase = "parsed"
    /\ damage = "none"
    /\ grammar = "redeemer"
    /\ Len(redeemer_actions) = 2
    /\ redeemer_actions[1].fields = <<>>
    /\ Len(redeemer_actions[2].fields) = 1
    /\ redeemer_actions[2].fields[1].field_type = "List<ByteArray>"
    /\ ValidActionSeq(redeemer_actions)
    /\ parsed.value = redeemer_actions

\* Some name that is written to the string occurs twice in it.
RepeatedName(items) ==
    \E i, j \in DOMAIN items :
        i < j /\ Named(items[i]) /\ items[i].name = items[j].name

\* C10: a string with an unknown type token, a missing colon or an
\* unbalanced parenthesis, a field list with a repeated field name, an action
\* list with a repeated action name or with a repeated field name inside one
\* action: each is rejected with a ParseError and yields no sequence.
C10_ParserRejects ==
    phase = "parsed" =>
        LET rejected == /\ ~ parsed.ok
                        /\ parsed.error = "ParseError"
                        /\ parsed.fragment # <<>>
                        /\ parsed.value = <<>>
        IN  /\ damage \in {"type", "colon", "paren"} => rejected
            /\ (grammar = "datum" /\ RepeatedName(datum_fields)) => rejected
            /\ (grammar = "redeemer" /\ RepeatedName(redeemer_actions)) => rejected
            /\ ( /\ grammar = "redeemer"
                 /\ \E i \in DOMAIN redeemer_actions :
                       /\ Named(redeemer_actions[i])
                       /\ RepeatedName(redeemer_actions[i].fields) )
                  => rejected

\* "A(a:Int" -- the closing parenthesis is missing -- has been refused.
C10_Witness ==
    /\ phase = "parsed"
    /\ grammar = "redeemer"
    /\ damage = "paren"
    /\ dsl = <<"A", "(", "a", ":", "I", "n", "t">>
    /\ parsed.error = "ParseError"

\* "a:Int,a:Bool" -- a repeated field name -- has been refused.
C10_WitnessDuplicate ==
    /\ phase = "parsed"
    /\ grammar = "datum"
    /\ dsl = <<"a", ":", "I", "n", "t", ",", "a", ":", "B", "o", "o", "l">>
    /\ parsed.error = "ParseError"

\* ------------------------------------------------------------------------
\* Properties of the verification pipeline
\* ------------------------------------------------------------------------

\* C4: a stage is entered only after every earlier stage passed; after a
\* failed stage no later stage is entered and none is reported Passed (they
\* stay absent or Skipped).  In the matrix script a tool runs only after the
\* earlier tools of the round succeeded, and a failed generate or check ends
\* the round with its FAIL line and without a scan.
C4_ShortCircuit ==
    /\ \A i \in DOMAIN v_entered :
          /\ v_entered[i] = Stages[i]
          /\ \A j \in 1..(i - 1) : v_report[Stages[j]] = "Passed"
    /\ \A i \in DOMAIN Stages :
          v_report[Stages[i]] = "Failed" =>
              \A j \in (i + 1)..Len(Stages) :
                  /\ v_report[Stages[j]] \in {"absent", "Skipped"}
                  /\ \A k \in DOMAIN v_entered : v_entered[k] # Stages[j]
    /\ "aiken" \in sh_ran => ("generate" \in sh_ran /\ "generate" \notin sh_failed)
    /\ "aikido" \in sh_ran => ({"generate", "aiken"} \subseteq sh_ran /\ sh_failed = {})
    /\ sh_failed # {} =>
          /\ sh_pc = "loop"
          /\ "aikido" \notin sh_ran
          /\ sh_scan = NoScan
          /\ sh_line.kind \in {"generate=FAIL", "aiken_check=FAIL"}

\* The compiler failed: the run is Failed(CompileError) and neither the test
\* runner nor the scanner was started.
C4_Witness ==
    /\ v_state = "Failed"
    /\ v_failure = Failure("CompileError", "Compiling")
    /\ v_entered = <<"Compiling">>
    /\ v_report["Testing"] = "absent"
    /\ v_report["Scanning"] = "absent"

\* aiken check failed for a template of the matrix: the round is over.
C4_WitnessMatrix ==
    /\ sh_pc = "loop"
    /\ sh_failed = {"aiken"}
    /\ sh_line = FailLine("aiken_check=FAIL")

\* The severities that the policy counts, whatever their letter case.
Serious(finding) ==
    finding.severity \in {<<"h", "i", "g", "h">>, <<"H", "i", "g", "h">>,
                          <<"c", "r", "i", "t", "i", "c", "a", "l">>}

SeriousIn(findings) == {i \in DOMAIN findings : Serious(findings[i])}

\* C5: after a successful scan the Scanning stage is Failed(SecurityFindings)
\* exactly when some finding is high or critical, and is Passed otherwise, with
\* the findings recorded either way; the matrix script's high_critical count
\* is positive exactly in the same case and its detector list names the
\* detectors of exactly those findings.
C5_ScanPolicy ==
    /\ v_scan.kind = "json" =>
          /\ v_findings = v_scan.findings
          /\ IF SeriousIn(v_scan.findings) # {}
             THEN /\ v_state = "Failed"
                  /\ v_report["Scanning"] = "Failed"
                  /\ v_failure = Failure("SecurityFindings", "Scanning")
             ELSE /\ v_state = "Passed"
                  /\ v_report["Scanning"] = "Passed"
                  /\ v_failure = NoFailure
    /\ (v_failure.kind = "SecurityFindings") =>
          (v_scan.kind = "json" /\ SeriousIn(v_scan.findings) # {})
    /\ (sh_scan.kind = "json" /\ sh_line.kind = "result") =>
          /\ sh_line.high_critical = <<Cardinality(SeriousIn(sh_scan.findings))>>
          /\ sh_line.high_critical[1] > 0 <=> SeriousIn(sh_scan.findings) # {}
          /\ sh_line.detectors =
                {sh_scan.findings[i].detector : i \in SeriousIn(sh_scan.findings)}

\* Exactly one finding, of medium severity: the run Passed and the finding is
\* in the report.
C5_Witness ==
    /\ v_state = "Passed"
    /\ Len(v_findings) = 1
    /\ v_findings[1].severity = <<"m", "e", "d", "i", "u", "m">>
    /\ v_report["Scanning"] = "Passed"

\* The same finding with severity high: Failed(SecurityFindings).
C5_WitnessHigh ==
    /\ v_state = "Failed"
    /\ Len(v_findings) = 1
    /\ v_findings[1].severity = <<"h", "i", "g", "h">>
    /\ v_failure = Failure("SecurityFindings", "Scanning")

\* ------------------------------------------------------------------------
\* Properties of the API
\* ------------------------------------------------------------------------

ValidName(s) ==
    /\ Len(s) > 0
    /\ \A i \in DOMAIN s : s[i] \in LowerChars \cup DigitChars \cup {"_"}

\* The catalogue lists the template with supports_sdk = false.
SdkFlagFalse(slug) ==
    \E i \in DOMAIN FALLBACK_TEMPLATES :
        /\ toShortTemplateSlug(FALLBACK_TEMPLATES[i].slug) = toShortTemplateSlug(slug)
        /\ ~ FALLBACK_TEMPLATES[i].supports_sdk

\* C7: generateSdk for a template whose supports_sdk flag is false (the rest
\* of the request being valid) ends in the UnsupportedOperation error and
\* returns no file list, not even an empty one.
C7_SdkGating ==
    ( /\ api_fn = "generateSdk"
      /\ api_result # NoApiResult
      /\ SdkFlagFalse(api_options.template)
      /\ ValidName(api_options.namespace)
      /\ ValidName(api_options.project_name) )
        => (~ api_result.ok /\ api_result.error = "UnsupportedOperation")

\* In dev fallback mode generateSdk for dex_pool returned an empty list.
C7_Witness ==
    /\ api_env = "dev_failed"
    /\ api_fn = "generateSdk"
    /\ api_options.template = Slug.dex_pool
    /\ api_options.namespace = NAME_myorg
    /\ api_options.project_name = NAME_my_token
    /\ api_result.ok
    /\ api_result.files = <<>>

\* C8: generate with a namespace or project name that is empty or not an
\* identifier fails validation and produces no files, for every template.
C8_IdentifierValidation ==
    ( /\ api_fn = "generate"
      /\ api_result # NoApiResult
      /\ ~ (ValidName(api_options.namespace) /\ ValidName(api_options.project_name)) )
        => ( /\ ~ api_result.ok
             /\ api_result.error = "ValidationError"
             /\ api_result.files = <<>> )

\* In dev fallback mode generate with an empty namespace rendered three files,
\* the type module at lib//my_token/types.ak.
C8_Witness ==
    /\ api_env = "dev_failed"
    /\ api_fn = "generate"
    /\ api_options.namespace = <<>>
    /\ api_options.project_name = NAME_my_token
    /\ api_result.ok
    /\ Len(api_result.files) = 3
    /\ api_result.files[2].path =
          <<"l", "i", "b", "/", "/", "m", "y", "_", "t", "o", "k", "e", "n",
            "/", "t", "y", "p", "e", "s", ".", "a", "k">>

\* ------------------------------------------------------------------------
\* Wizard properties
\* ------------------------------------------------------------------------
\* nothing is in flight and nothing waits to be rendered
WizardQuiet == w_queue = <<>> /\ ~ w_dirty

SdkOutput(files, sdk) == IF sdk.ok THEN files \o sdk.files ELSE <<>>

GeneratedOutput(env, options, wantSdk, generated) ==
    IF ~ generated.ok THEN <<>>
    ELSE IF wantSdk THEN SdkOutput(generated.files, generateSdk(env, options))
    ELSE generated.files

ValidatedOutput(env, options, wantSdk, validation) ==
    IF validation.ok /\ validation.valid
    THEN GeneratedOutput(env, options, wantSdk, generate(env, options))
    ELSE <<>>

\* The file set one regeneration of cfg produces on its own: files followed
\* by sdkFiles, and nothing when one of its steps fails.
OutputOf(env, cfg, templates) ==
    IF toShortTemplateSlug(cfg.template) = Slug.custom
    THEN ValidatedOutput(env, BuildOptions(cfg), FALSE,
                         validateCustom(env, BuildOptions(cfg)))
    ELSE GeneratedOutput(env, BuildOptions(cfg),
                         cfg.generate_sdk /\ templateSupportsSdk(templates, cfg.template),
                         generate(env, BuildOptions(cfg)))

OutputsOf(cfg) ==
    {OutputOf(w_env, cfg, templates) : templates \in {listTemplatesFallback, w_templates}}

\* C6: once a generation step has failed and nothing is in flight, the file
\* set offered (files followed by sdkFiles) is empty or the whole output of
\* one configuration the wizard has been in, and when an error is reported
\* the file set is empty or the output of the current configuration, never
\* that of a different one.
C6_NoPartialOrMixedFileSet ==
    (WizardQuiet /\ w_failed) =>
        /\ allFiles = <<>> \/ \E cfg \in w_seen : allFiles \in OutputsOf(cfg)
        /\ w_error # NULL => (allFiles = <<>> \/ allFiles \in OutputsOf(w_config))

\* In dev fallback mode the custom template failed its validation and the
\* error is shown, while the three files of the mint project generated
\* before are still offered.
C6_Witness ==
    /\ WizardQuiet
    /\ w_failed
    /\ w_env = "dev_failed"
    /\ w_config.template = Slug.custom
    /\ w_error # NULL
    /\ Len(allFiles) = 3
    /\ allFiles \in OutputsOf(DEFAULT_CONFIG)
    /\ allFiles \notin OutputsOf(w_config)

\* With the core loaded, the project files are those of the dex template and
\* the SDK file is that of the mint template: a request made while the load
\* was pending set sdkFiles after a later one had set files, and the
\* regeneration that followed failed and replaced neither.
C6_WitnessMixed ==
    /\ WizardQuiet
    /\ w_failed
    /\ w_env = "core"
    /\ w_error = "ValidationError"
    /\ w_files # <<>>
    /\ w_sdkFiles # <<>>
    /\ w_files[1].content.rendered.template = Slug.dex_pool
    /\ w_sdkFiles[1].content.rendered.template = Slug.simple_mint

\* ------------------------------------------------------------------------
\* Feature checkbox properties
\* ------------------------------------------------------------------------
\* the selected features that depend on r, directly or transitively
DependentsOf(r, S) == {f \in S : f # r /\ r \in Closure({f})}

\* C11: after a removal of feature r from the selection S the selection is S
\* without r and without every feature of S that depends on r, directly or
\* transitively, and no selected feature has an unselected dependency.
C11_RemovalCascades ==
    ft_last.removed =>
        /\ Range(ft_selected) =
              Range(ft_last.before)
                  \ ({ft_last.name} \cup DependentsOf(ft_last.name, Range(ft_last.before)))
        /\ \A f \in Range(ft_selected) : DependsOn(f) \subseteq Range(ft_selected)

\* value-preservation was removed while reference-safety, which shares its
\* dependency, stays selected together with datum-continuity.
C11_Witness ==
    /\ ft_last.removed
    /\ ft_last.name = "value-preservation"
    /\ "value-preservation" \in Range(ft_last.before)
    /\ Range(ft_selected) = {"datum-continuity", "reference-safety"}

\* ------------------------------------------------------------------------
\* API properties, continued
\* ------------------------------------------------------------------------
\* C12: a second, independent call of generate with the same options, made
\* at any later time, returns what the first call returned: the same files
\* in the same order with the same paths and contents, or the same error.
C12_Determinism ==
    (api_fn = "generate" /\ api_again # NoApiResult) => api_again = api_result

\* In dev fallback mode two calls for the vesting template, the clock having
\* advanced, both returned the same three files.
C12_Witness ==
    /\ api_fn = "generate"
    /\ api_env = "dev_failed"
    /\ api_options.template = Slug.vesting
    /\ api_clock = MaxClock
    /\ api_result.ok
    /\ Len(api_result.files) = 3
    /\ api_again = api_result

\* ------------------------------------------------------------------------
\* Verifier properties, continued
\* ------------------------------------------------------------------------
TerminalStates == {"Passed", "Failed", "Skipped"}

\* the failure a stage's tool reports by itself
ToolErrorOf(stage) ==
    CASE stage = "Compiling" -> {"CompileError"}
      [] stage = "Testing"   -> {"TestError"}
      [] stage = "Scanning"  -> {"ScanToolError"}

\* C13: a run with verification enabled is never Skipped; a run with
\* verification disabled enters no stage; a Skipped run entered no stage, so
\* it came straight from Pending; a Passed run entered Compiling, Testing
\* and Scanning, in that order.
C13_SkippedOnlyWhenDisabled ==
    /\ v_enabled => v_state # "Skipped"
    /\ ~ v_enabled => (v_entered = <<>> /\ v_state \notin Range(Stages))
    /\ v_state = "Skipped" => (~ v_enabled /\ v_entered = <<>> /\ v_outcome = "none")
    /\ v_state = "Passed" => (v_enabled /\ v_entered = Stages)

\* The caller disabled verification and the run was skipped, every stage
\* reported Skipped.
C13_Witness ==
    /\ v_state = "Skipped"
    /\ ~ v_enabled
    /\ \A s \in Range(Stages) : v_report[s] = "Skipped"

\* An enabled run passed all three stages.
C13_WitnessPassed ==
    /\ v_state = "Passed"
    /\ v_enabled
    /\ v_entered = <<"Compiling", "Testing", "Scanning">>

\* C14: when the tool of a stage is timed out the run is Failed with
\* Timeout naming that stage; Timeout is reported for nothing else; when the
\* tool itself reports a failure the run is Failed with that stage's error,
\* never with Timeout.
C14_TimeoutDistinct ==
    /\ v_outcome = "timeout" =>
          /\ v_state = "Failed"
          /\ v_failure = Failure("Timeout", v_entered[Len(v_entered)])
    /\ v_failure.kind = "Timeout" => v_outcome = "timeout"
    /\ v_outcome = "error" =>
          /\ v_state = "Failed"
          /\ v_failure.stage = v_entered[Len(v_entered)]
          /\ v_failure.kind \in ToolErrorOf(v_failure.stage)

\* The test runner was timed out after the compiler had passed.
C14_Witness ==
    /\ v_outcome = "timeout"
    /\ v_entered = <<"Compiling", "Testing">>
    /\ v_failure = Failure("Timeout", "Testing")
    /\ v_report["Compiling"] = "Passed"

\* C15: every run that is Pending eventually is Passed, Failed or Skipped,
\* also when a tool hangs.
C15_Terminates == (v_state = "Pending") ~> (v_state \in TerminalStates)

\* The scanner hangs, after the compiler and the test runner have passed.
C15_Witness ==
    /\ v_state = "Scanning"
    /\ v_proc = "hung"

\* ------------------------------------------------------------------------
\* API properties, continued
\* ------------------------------------------------------------------------
\* the members of the redeemer types a types module declares
RedeemerMembers(content) ==
    UNION {Range(content.decls[i].members) :
              i \in {j \in DOMAIN content.decls : content.decls[j].type = "VestingRedeemer"}}

VestingScenario ==
    /\ api_fn = "generate"
    /\ api_result # NoApiResult
    /\ api_options.template = Slug.vesting
    /\ api_options.namespace = NAME_myorg
    /\ api_options.project_name = NAME_my_vesting

\* C16: generate for template vesting, namespace myorg, project my_vesting
\* returns exactly three files: the manifest aiken.toml, one type module
\* under lib/myorg/my_vesting/ and one validator module under validators/;
\* the sample project's redeemer type has Claim, and has Cancel exactly
\* when cancellable is set.
C16_VestingScenario ==
    (VestingScenario /\ api_env \in {"core", "dev_failed"}) =>
        /\ api_result.ok
        /\ Len(api_result.files) = 3
        /\ api_result.files[1].path = Lit.AIKEN_TOML
        /\ api_result.files[1].content.kind = "manifest"
        /\ StartsWith(api_result.files[2].path,
                      Lit.LIB_DIR \o NAME_myorg \o <<"/">> \o NAME_my_vesting \o <<"/">>)
        /\ api_result.files[2].content.kind = "types"
        /\ StartsWith(api_result.files[3].path, Lit.VALIDATORS_DIR)
        /\ api_result.files[3].content.kind = "validator"
        /\ api_env = "dev_failed" =>
              /\ "Claim" \in RedeemerMembers(api_result.files[2].content)
              /\ "Cancel" \in RedeemerMembers(api_result.files[2].content)
                    <=> api_options.cancellable

\* The scenario with cancellable and partial_claim both set, in the wizard's
\* fallback: three files, Claim and Cancel.
C16_Witness ==
    /\ VestingScenario
    /\ api_env = "dev_failed"
    /\ api_options.cancellable
    /\ api_options.partial_claim
    /\ Len(api_result.files) = 3
    /\ RedeemerMembers(api_result.files[2].content) = {"Claim", "Cancel"}

\* The scenario with cancellable cleared: Claim alone.
C16_WitnessNoCancel ==
    /\ VestingScenario
    /\ api_env = "dev_failed"
    /\ ~ api_options.cancellable
    /\ api_options.partial_claim
    /\ RedeemerMembers(api_result.files[2].content) = {"Claim"}

ListCalls == {"listTemplates", "listFeatures"}

\* C17: whatever way the load of the WASM module ended, in dev and in
\* production mode, listTemplates and listFeatures return a list, the
\* catalogue, and raise no error.
C17_ListsAlwaysSucceed ==
    (api_fn \in ListCalls /\ api_result # NoApiResult) =>
        /\ api_result.ok
        /\ api_result.value # <<>>

\* Production build, the import of the module failed: listTemplates threw.
C17_Witness ==
    /\ api_fn = "listTemplates"
    /\ api_env = "prod_failed"
    /\ api_result = [ok |-> FALSE, value |-> <<>>]

\* The same for listFeatures.
C17_WitnessFeatures ==
    /\ api_fn = "listFeatures"
    /\ api_env = "prod_failed"
    /\ api_result = [ok |-> FALSE, value |-> <<>>]

\* the templates getTemplateInfo looks the slug up in
CatalogueOf(env) == IF HasWasm(env) THEN CoreTemplates ELSE FALLBACK_TEMPLATES

CatalogueSlugs(env) == {CatalogueOf(env)[i].slug : i \in DOMAIN CatalogueOf(env)}

\* C18: getTemplateInfo(slug) returns the template with that slug when the
\* catalogue has one and NotFound when it has none; a template it returns
\* has the slug that was asked for.
C18_TemplateOrNotFound ==
    (api_fn = "getTemplateInfo" /\ api_result # NoApiResult) =>
        IF api_options.template \in CatalogueSlugs(api_env)
        THEN /\ api_result.ok
             /\ api_result.value[1].slug = api_options.template
        ELSE /\ ~ api_result.ok
             /\ api_result.error = "NotFound"

\* Dev mode, the import failed: asked for the unknown slug "no", the call
\* returned the first fallback template, mint.
C18_Witness ==
    /\ api_fn = "getTemplateInfo"
    /\ api_env = "dev_failed"
    /\ api_options.template = <<"n", "o">>
    /\ api_result.ok
    /\ api_result.value[1].slug = Slug.mint

\* With the core loaded an unknown slug is NotFound.
C18_WitnessCore ==
    /\ api_fn = "getTemplateInfo"
    /\ api_env = "core"
    /\ api_options.template = <<"n", "o">>
    /\ ~ api_result.ok
    /\ api_result.error = "NotFound"

\* C19: under the dev server with no WASM build, listTemplates returns the
\* 13 fallback templates, listFeatures the 7 fallback features and generate
\* the three files of generateFallback.
C19_FallbackMode ==
    (api_env = "stub" /\ api_result # NoApiResult) =>
        /\ api_fn = "listTemplates" =>
              (api_result.ok /\ api_result.value = FALLBACK_TEMPLATES
                  /\ Len(api_result.value) = 13)
        /\ api_fn = "listFeatures" =>
              (api_result.ok /\ api_result.value = FALLBACK_FEATURES
                  /\ Len(api_result.value) = 7)
        /\ api_fn = "generate" => api_result = Ok(generateFallback(api_options))

\* Dev server, no WASM build: generate returned the empty list.
C19_Witness ==
    /\ api_env = "stub"
    /\ api_fn = "generate"
    /\ api_options.template = Slug.mint
    /\ api_result = Ok(<<>>)

\* Dev server, no WASM build: listTemplates returned the empty list.
C19_WitnessTemplates ==
    /\ api_env = "stub"
    /\ api_fn = "listTemplates"
    /\ api_result = [ok |-> TRUE, value |-> <<>>]

\* Dev mode, the import failed: the sample project.
C19_WitnessImportFailed ==
    /\ api_env = "dev_failed"
    /\ api_fn = "generate"
    /\ api_options.template = Slug.mint
    /\ api_result = Ok(generateFallback(api_options))
    /\ Len(api_result.files) = 3

\* ------------------------------------------------------------------------
\* Wizard properties, continued
\* ------------------------------------------------------------------------
\* C20 as stated: after regenerate calls have overlapped and all of them
\* have completed, files followed by sdkFiles is what the most recent
\* configuration generates.
C20_LastConfigurationWins ==
    (WizardQuiet /\ w_overlap) => allFiles = OutputOf(w_env, w_config, w_templates)

\* C20, amended: after regenerate calls have overlapped and all of them have
\* completed, and no error is shown, files followed by sdkFiles is what the
\* most recent configuration generates.
C20_LastSuccessfulConfigurationWins ==
    (WizardQuiet /\ w_overlap /\ w_error = NULL) =>
        allFiles = OutputOf(w_env, w_config, w_templates)

\* With the core loaded: the configuration was changed twice while the load
\* was pending, the SDK is asked for, and the project and SDK files shown
\* are those of the last configuration.
C20_Witness ==
    /\ WizardQuiet
    /\ w_overlap
    /\ w_env = "core"
    /\ w_error = NULL
    /\ w_updates >= 2
    /\ w_config.generate_sdk
    /\ w_config # DEFAULT_CONFIG
    /\ w_sdkFiles # <<>>
    /\ allFiles = OutputOf(w_env, w_config, w_templates)

\* Overlapping calls have completed, the last configuration failed, and the
\* files of an earlier configuration are still shown.
C20_WitnessStale ==
    /\ WizardQuiet
    /\ w_overlap
    /\ w_error # NULL
    /\ w_files # <<>>
    /\ OutputOf(w_env, w_config, w_templates) = <<>>

\* ------------------------------------------------------------------------
\* Feature checkbox properties, continued
\* ------------------------------------------------------------------------
\* C21: from the empty selection, after every sequence of clicks on enabled
\* checkboxes, the selection contains every direct and transitive dependency
\* of each selected feature.
C21_DependencyClosed ==
    \A f \in Range(ft_selected) : Closure({f}) \subseteq Range(ft_selected)

\* Two dependents were added and one of them removed again: the dependency
\* they share is still selected, and its checkbox is disabled.
C21_Witness ==
    /\ ft_last.removed
    /\ ft_last.name = "bounded-operations"
    /\ "value-preservation" \in Range(ft_selected)
    /\ "datum-continuity" \in Range(ft_selected)
    /\ isDep(ft_features, ft_selected, "datum-continuity")

\* ------------------------------------------------------------------------
\* Wizard properties: validation, SDK, active file, loading
\* ------------------------------------------------------------------------
IsCustomCall(call) ==
    call.kind = "regenerate" /\ toShortTemplateSlug(call.cfg.template) = Slug.custom

Validates(options) ==
    validateCustom(w_env, options).ok /\ validateCustom(w_env, options).valid

\* a call of regenerate for the custom template that is past its validation
PastValidation(queue) ==
    {i \in DOMAIN queue : IsCustomCall(queue[i]) /\ queue[i].pc \in {"generate", "generateSdk"}}

\* the step in which a validateCustom that is not valid, or throws, comes back
ValidationFails ==
    /\ Runnable("validateCustom")
    /\ ~ Validates(Head(w_queue).options)

\* C22: a regenerate call for the custom template awaits generate or
\* generateSdk only when validateCustom accepts its options; the step in
\* which validateCustom comes back not valid, or throws, ends the call
\* without generate or generateSdk, leaves files and sdkFiles as they were
\* and sets the error.
C22_ValidationGates ==
    /\ [](\A i \in PastValidation(w_queue) : Validates(w_queue[i].options))
    /\ [][ValidationFails =>
              /\ w_files' = w_files
              /\ w_sdkFiles' = w_sdkFiles
              /\ w_error' # NULL
              /\ w_queue' = Tail(w_queue)]_vars

\* In dev fallback mode the validation of the custom configuration came
\* back with valid = false: its message is the error, the call is over and
\* the files are those the mint configuration had left.
C22_Witness ==
    /\ w_env = "dev_failed"
    /\ w_wasm = "settled"
    /\ toShortTemplateSlug(w_config.template) = Slug.custom
    /\ ~ Validates(BuildOptions(w_config))
    /\ w_error = validateCustom(w_env, BuildOptions(w_config)).error
    /\ w_queue = <<>>
    /\ w_files = generateFallback(BuildOptions(DEFAULT_CONFIG))
    /\ w_sdkFiles = <<>>

\* In a production build whose load failed validateCustom throws: the
\* error is set and nothing was generated.
C22_WitnessThrows ==
    /\ w_env = "prod_failed"
    /\ w_wasm = "settled"
    /\ toShortTemplateSlug(w_config.template) = Slug.custom
    /\ ~ validateCustom(w_env, BuildOptions(w_config)).ok
    /\ w_error = validateCustom(w_env, BuildOptions(w_config)).error
    /\ w_queue = <<>>
    /\ w_files = <<>>

\* With the core loaded a custom configuration passed the validation and
\* its call awaits generate.
C22_WitnessValid ==
    /\ w_env = "core"
    /\ PastValidation(w_queue) # {}

\* the SDK Support Matrix: what the catalogue says of the template
CatalogueSupportsSdk(slug) == templateSupportsSdk(listTemplatesFallback, slug)

\* the regenerate calls that await generateSdk
AwaitingSdk(queue) == {i \in DOMAIN queue : queue[i].pc = "generateSdk"}

\* C23 as stated: whenever a regenerate call awaits generateSdk the wizard's
\* configuration asks for the SDK and the current template supports one;
\* once the render is done the configuration asks for the SDK only for a
\* template that supports one; and when nothing is in flight and no error is
\* shown, a template without SDK support has no SDK files.
C23_SdkOnlyForCurrentConfig ==
    /\ AwaitingSdk(w_queue) # {} =>
          /\ w_config.generate_sdk
          /\ CatalogueSupportsSdk(w_config.template)
    /\ (~ w_dirty /\ w_config.generate_sdk) =>
          templateSupportsSdk(w_templates, w_config.template)
    /\ (WizardQuiet /\ w_error = NULL
             /\ ~ templateSupportsSdk(w_templates, w_config.template)) =>
          w_sdkFiles = <<>>

\* The SDK was asked for while the load was pending and the template then
\* switched to dex: the earlier call awaits generateSdk for mint while the
\* wizard's configuration is dex without the SDK option.
C23_WitnessOvertaken ==
    /\ w_config.template = Slug.dex
    /\ ~ w_config.generate_sdk
    /\ \E i \in AwaitingSdk(w_queue) : w_queue[i].cfg.template = Slug.mint

\* C23, amended: a regenerate call awaits generateSdk only when the
\* configuration it was called with
\* asks for the SDK and its template supports one; once the render is done,
\* the configuration asks for the SDK only for a template that supports one;
\* and when nothing is in flight and no error is shown, a template without
\* SDK support has no SDK files.
C23_NoSdkForUnsupported ==
    /\ \A i \in AwaitingSdk(w_queue) :
          /\ w_queue[i].cfg.generate_sdk
          /\ w_queue[i].supports
          /\ CatalogueSupportsSdk(w_queue[i].cfg.template)
    /\ (~ w_dirty /\ w_config.generate_sdk) =>
          /\ templateSupportsSdk(w_templates, w_config.template)
          /\ CatalogueSupportsSdk(w_config.template)
    /\ (WizardQuiet /\ w_error = NULL
             /\ ~ templateSupportsSdk(w_templates, w_config.template)) =>
          w_sdkFiles = <<>>

\* With the core loaded the SDK was asked for and generated for mint, then
\* the template was switched to dex: the option is cleared and, the
\* regeneration done, no SDK file is left.
C23_Witness ==
    /\ WizardQuiet
    /\ w_env = "core"
    /\ w_error = NULL
    /\ w_config.template = Slug.dex
    /\ ~ w_config.generate_sdk
    /\ \E cfg \in w_seen : cfg.generate_sdk /\ cfg.template = Slug.mint
    /\ w_files # <<>>
    /\ w_sdkFiles = <<>>

\* A call for mint with the SDK option awaits generateSdk.
C23_WitnessInvoked ==
    /\ w_env = "core"
    /\ \E i \in AwaitingSdk(w_queue) : w_queue[i].cfg.template = Slug.mint

Paths(files) == {files[i].path : i \in DOMAIN files}

\* C24: whenever files are displayed and no regeneration is in flight,
\* activeFile is the path of one of the displayed files.
C24_ActiveFileListed ==
    (WizardQuiet /\ allFiles # <<>>) => w_activeFile \in Paths(allFiles)

\* With the core loaded the project name was changed to "p" after the mint
\* project had been shown: the files are those of the new name, no error is
\* shown, and activeFile is still validators/my_token.ak.
C24_Witness ==
    /\ WizardQuiet
    /\ w_env = "core"
    /\ w_error = NULL
    /\ w_config.project_name = <<"p">>
    /\ Paths(w_files) = Paths(generate(w_env, BuildOptions(w_config)).files)
    /\ w_activeFile = Lit.VALIDATORS_DIR \o NAME_my_token \o Lit.DOT_AK
    /\ w_activeFile \notin Paths(allFiles)

\* the regenerate calls that have started and not finished
InFlight(queue) == {i \in DOMAIN queue : queue[i].kind = "regenerate"}

\* C25: whenever a regenerate call has started and not finished, loading is
\* true; loading is false only when no regenerate call is in flight.
C25_LoadingCoversInFlight ==
    InFlight(w_queue) # {} => w_loading

\* With the core loaded: the SDK option was ticked while the load was
\* pending; the first call has finished and cleared loading, the second
\* still awaits generate.
C25_Witness ==
    /\ w_env = "core"
    /\ w_wasm = "settled"
    /\ w_overlap
    /\ ~ w_loading
    /\ w_error = NULL
    /\ w_files = generate(w_env, BuildOptions(DEFAULT_CONFIG)).files
    /\ \E i \in InFlight(w_queue) :
          /\ w_queue[i].pc = "generate"
          /\ w_queue[i].cfg.generate_sdk

\* ------------------------------------------------------------------------
\* Loader properties
\* ------------------------------------------------------------------------
LoadSettled == ld_loading = "settled"

\* C26: the import is started at most once; a caller has returned only when
\* the load has settled; once it has settled exactly one of `wasm is set`
\* and `wasmFailed` holds, and neither changes nor is the import started
\* again.
C26_SingleFlight ==
    /\ [](ld_started <= 1)
    /\ [](\A c \in Callers : ld_pc[c] = "returned" => LoadSettled)
    /\ [](LoadSettled => ((ld_wasm # "null") # ld_wasmFailed))
    /\ [](~ LoadSettled => (ld_wasm = "null" /\ ~ ld_wasmFailed))
    /\ [][LoadSettled => /\ LoadSettled'
                         /\ ld_wasm' = ld_wasm
                         /\ ld_wasmFailed' = ld_wasmFailed
                         /\ ld_started' = ld_started]_vars

\* The three callers called while the load was pending, the initialisation
\* failed, all returned, and a call made afterwards returned without a
\* second import.
C26_Witness ==
    /\ ld_wasmFailed
    /\ ld_wasm = "null"
    /\ ld_started = 1
    /\ ld_calls = MaxLoadCalls
    /\ \A c \in Callers : ld_pc[c] = "returned"

\* Two callers await the one import.
C26_WitnessShared ==
    /\ ld_loading = "pending"
    /\ ld_started = 1
    /\ \E c, d \in Callers : c # d /\ ld_pc[c] = "awaiting" /\ ld_pc[d] = "awaiting"

\* the options carry a flag only for the template it belongs to
OnlyOwnFlags(options) ==
    LET short == toShortTemplateSlug(options.template)
    IN  /\ options.time_lock => short = Slug.mint
        /\ options.cancellable => short = Slug.vesting
        /\ options.partial_claim => short = Slug.vesting
        /\ options.custom => short = Slug.custom

\* C27: the options of every regenerate call, and those built from every
\* configuration the wizard has been in, carry time_lock only for mint,
\* cancellable and partial_claim only for vesting, and purpose, features,
\* datum and redeemer only for custom.
C27_OnlyOwnFlags ==
    /\ \A i \in InFlight(w_queue) :
          /\ w_queue[i].options = BuildOptions(w_queue[i].cfg)
          /\ OnlyOwnFlags(w_queue[i].options)
    /\ \A cfg \in w_seen : OnlyOwnFlags(BuildOptions(cfg))

\* Time Lock was ticked for mint and the template switched to vesting: the
\* configuration still has time_lock set, the options of its call have not.
C27_Witness ==
    \E i \in InFlight(w_queue) :
        /\ w_queue[i].cfg.template = Slug.vesting
        /\ w_queue[i].cfg.time_lock
        /\ w_queue[i].cfg.cancellable
        /\ ~ w_queue[i].options.time_lock
        /\ w_queue[i].options.cancellable

\* ------------------------------------------------------------------------
\* Catalogue properties
\* ------------------------------------------------------------------------
UniqueNames ==
    \A i, j \in DOMAIN FALLBACK_FEATURES :
        FALLBACK_FEATURES[i].name = FALLBACK_FEATURES[j].name => i = j

DependenciesDeclared ==
    \A i \in DOMAIN FALLBACK_FEATURES :
        Range(FALLBACK_FEATURES[i].depends_on) \subseteq FeatureNames

\* no feature is among the transitive dependencies of itself
Acyclic == \A n \in FeatureNames : n \notin Closure(DependsOn(n))

DependencyPurposes ==
    \A i \in DOMAIN FALLBACK_FEATURES :
        \A d \in Range(FALLBACK_FEATURES[i].depends_on) \cap FeatureNames :
            FindFeature(d).purpose \in {NULL, FALLBACK_FEATURES[i].purpose}

\* the request is one catalogue feature, resolved under its declared purpose
SingleUnderOwnPurpose ==
    /\ Len(requested) = 1
    /\ requested[1] \in FeatureNames
    /\ FindFeature(requested[1]).purpose \in {NULL, purpose}
    /\ resolved # NoResult

\* C28: in the catalogue the names are unique, every depends_on name is a
\* catalogue feature, depends_on is acyclic and the purpose of a dependency
\* is none or that of its dependent; the resolution of a single feature
\* under its declared purpose succeeds, with the feature and its
\* dependencies.
C28_CatalogueWellFormed ==
    /\ UniqueNames
    /\ DependenciesDeclared
    /\ Acyclic
    /\ DependencyPurposes
    /\ SingleUnderOwnPurpose =>
          /\ resolved.ok
          /\ resolved.set = Closure({requested[1]})

\* bounded-operations alone, under spend, its declared purpose, resolved
\* with datum-continuity, its one dependency, rendered first.
C28_Witness ==
    /\ SingleUnderOwnPurpose
    /\ purpose = "spend"
    /\ requested = <<"bounded-operations">>
    /\ resolved.ok
    /\ resolved.order = <<"datum-continuity", "bounded-operations">>

\* ------------------------------------------------------------------------
\* Fallback generation in the wizard
\* ------------------------------------------------------------------------
Declares(content, name) == \E i \in DOMAIN content.decls : content.decls[i].type = name

\* the files shown were generated by generateFallback for the mint template
FallbackMintShown ==
    /\ w_env = "dev_failed"
    /\ WizardQuiet
    /\ w_error = NULL
    /\ toShortTemplateSlug(w_config.template) = Slug.mint
    /\ w_files # <<>>

\* C29: in dev fallback mode, with the template mint selected, the type
\* module declares MintRedeemer with Mint and Burn, declares MintDatum with
\* a deadline exactly when time_lock is set, and the validator is the mint
\* validator.
C29_FallbackHonoursMint ==
    FallbackMintShown =>
        /\ TypeDecl("MintRedeemer", <<"Mint", "Burn">>) \in Range(w_files[2].content.decls)
        /\ TypeDecl("MintDatum", <<"admin", "deadline">>) \in Range(w_files[2].content.decls)
              <=> w_config.time_lock
        /\ ~ Declares(w_files[2].content, "Redeemer")
        /\ w_files[3].content.handler = "mint"

\* In dev fallback mode the wizard shows, for the mint template it starts
\* with, the generic Datum and Redeemer types and the generic spend
\* validator: the options carried the long slug simple_mint.
C29_Witness ==
    /\ FallbackMintShown
    /\ w_config = DEFAULT_CONFIG
    /\ w_files = generateFallback(BuildOptions(w_config))
    /\ BuildOptions(w_config).template = Slug.simple_mint
    /\ w_files[2].content.decls =
          <<TypeDecl("Datum", <<"admin">>), TypeDecl("Redeemer", <<"Execute">>)>>
    /\ w_files[3].content.handler = "spend"
    /\ w_files[3].content.cases = <<"Execute">>

\* ------------------------------------------------------------------------
\* Properties of the slug conversion
\* ------------------------------------------------------------------------
\* the conversions applied were f, then g
Applied(f, g) == sl_calls = <<f, g>>

\* no two templates of the catalogue share a short slug
DistinctShortSlugs(templates) ==
    \A i, j \in DOMAIN templates :
        toShortTemplateSlug(templates[i].slug) = toShortTemplateSlug(templates[j].slug)
            => i = j

\* C30: for a template slug in short or long form, in any letter case, with
\* hyphens or underscores, converting to the short form twice gives what
\* converting once gives; the short form of the long form is the short form
\* of the slug; the long form of the short form is the long form of the slug;
\* and no two templates of the catalogue have the same short slug.
C30_SlugConversionConsistent ==
    /\ Applied("toShortTemplateSlug", "toShortTemplateSlug")
          => sl_values[3] = sl_values[2]
    /\ Applied("toLongTemplateSlug", "toShortTemplateSlug")
          => sl_values[3] = toShortTemplateSlug(sl_slug)
    /\ Applied("toShortTemplateSlug", "toLongTemplateSlug")
          => sl_values[3] = toLongTemplateSlug(sl_slug)
    /\ DistinctShortSlugs(FALLBACK_TEMPLATES)
    /\ DistinctShortSlugs(CoreTemplates)

\* "Dex-Pool" was converted to dex_pool and that to dex
C30_Witness ==
    /\ sl_slug = <<"D", "e", "x", "-", "p", "o", "o", "l">>
    /\ Applied("toLongTemplateSlug", "toShortTemplateSlug")
    /\ sl_values = <<sl_slug, Slug.dex_pool, Slug.dex>>

\* "MINT" was converted to mint, and mint to mint again
C30_WitnessIdempotent ==
    /\ sl_slug = <<"M", "I", "N", "T">>
    /\ Applied("toShortTemplateSlug", "toShortTemplateSlug")
    /\ sl_values = <<sl_slug, Slug.mint, Slug.mint>>

====
